---- MODULE Spec2Model ----
(***************************************************************************)
(* A model of the AccordAI backend's retrieval core: the chunker, the      *)
(* embedding normaliser, the Pinecone-backed store/retrieve operations of  *)
(* VectorService, the multi-query retrieval of the analysis and chatbot    *)
(* endpoints, and the conversation store and chat endpoint of chatbot.py.  *)
(* Strings are sequences of one-character strings, so that splitting,      *)
(* joining, slicing and concatenation are computed, not assumed.           *)
(***************************************************************************)
EXTENDS Integers, Sequences, FiniteSets, TLC

VARIABLES
    text,           \* chunk_text: the text argument (a string)
    chunk_size,     \* chunk_text: the chunk_size argument
    overlap,        \* chunk_text: the overlap argument
    chunk_result,   \* chunk_text: the outcome of the call (status "pending" before it)
    embed_texts,    \* create_embeddings: the texts argument (a list of strings)
    encoded,        \* create_embeddings: what embedding_model.encode(texts) returned
    embed_result,   \* create_embeddings: the outcome of the call
    index,          \* the Pinecone index (namespace ""): its records, oldest first
    now,            \* the clock read by datetime.now()
    last,           \* the last request served, and its outcome
    conversations,  \* conversation_store.conversations: session_id -> message log
    appended,       \* history variable: session_id -> every message appended to the
                    \* session's log since the log was created (no handler reads it)
    tasks,          \* the suspended coroutines of the event loop, by worker
    storing         \* the store_document_chunks call in progress, and its position

chunkVars == <<text, chunk_size, overlap, chunk_result>>
embedVars == <<embed_texts, encoded, embed_result>>
indexVars == <<index, now, last>>
chatVars == <<conversations, appended, tasks>>
storeVars == <<storing>>
vars == <<chunkVars, embedVars, indexVars, chatVars, storeVars>>

(***************************************************************************)
(* Bounds of the model.                                                    *)
(***************************************************************************)
MaxTextLen == 7
MaxChunkSize == 3
MaxBatch == 3
MaxDimDelta == 2
MaxSeed == 1
MaxClock == 5
MaxTopK == 2

(***************************************************************************)
(* Python helpers.                                                         *)
(***************************************************************************)
Min(a, b) == IF a < b THEN a ELSE b
Max(a, b) == IF a > b THEN a ELSE b

\* Python's None, where a value may be missing.
None == <<>>

\* s[lo:hi] for 0 <= lo and 0 <= hi (Python clamps both ends to len(s)).
PySlice(s, lo, hi) == SubSeq(s, lo + 1, Min(hi, Len(s)))

Digit(d) == CASE d = 0 -> "0" [] d = 1 -> "1" [] d = 2 -> "2" [] d = 3 -> "3"
              [] d = 4 -> "4" [] d = 5 -> "5" [] d = 6 -> "6" [] d = 7 -> "7"
              [] d = 8 -> "8" [] d = 9 -> "9"

\* str(n) of an integer: its decimal digits, after "-" when it is negative.
RECURSIVE PyStr(_)
PyStr(n) ==
    IF n < 0 THEN <<"-">> \o PyStr(-n)
    ELSE IF n < 10 THEN <<Digit(n)>>
    ELSE PyStr(n \div 10) \o <<Digit(n % 10)>>

\* str.split() with no argument on the characters lo..hi of t: the maximal
\* runs of non-blank characters.  Computed by halving, joining the run that
\* spans the middle.
RECURSIVE SplitRange(_, _, _)
SplitRange(t, lo, hi) ==
    IF lo > hi THEN <<>>
    ELSE IF lo = hi THEN (IF t[lo] = " " THEN <<>> ELSE << <<t[lo]>> >>)
    ELSE LET mid == (lo + hi) \div 2
             l == SplitRange(t, lo, mid)
             r == SplitRange(t, mid + 1, hi)
         IN  IF t[mid] # " " /\ t[mid + 1] # " "
             THEN SubSeq(l, 1, Len(l) - 1) \o << l[Len(l)] \o r[1] >> \o Tail(r)
             ELSE l \o r

PySplit(t) == SplitRange(t, 1, Len(t))

\* ' '.join(ws[lo..hi]), computed by halving.
RECURSIVE JoinRange(_, _, _)
JoinRange(ws, lo, hi) ==
    IF lo > hi THEN <<>>
    ELSE IF lo = hi THEN ws[lo]
    ELSE LET mid == (lo + hi) \div 2
         IN  JoinRange(ws, lo, mid) \o <<" ">> \o JoinRange(ws, mid + 1, hi)

PyJoin(ws) == JoinRange(ws, 1, Len(ws))

\* hashlib.md5(s.encode()).hexdigest(): a digest that names its input (no
\* two inputs of the model share a digest).
Md5(s) == <<"md5">> \o s

(***************************************************************************)
(* VectorService.chunk_text                                                *)
(***************************************************************************)
\* A plausible slip of the loop: a window is emitted only when it is full,
\* so the words after the last full window are dropped.
RECURSIVE ChunkLoop_FullWindowsOnly(_, _, _, _, _)
ChunkLoop_FullWindowsOnly(words, size, ovl, i, chunks) ==
    IF i + size > Len(words) THEN chunks
    ELSE LET chunk_words == PySlice(words, i, i + size)
             chunk_text_ == PyJoin(chunk_words)
             chunk == [ id          |-> Md5(PySlice(chunk_text_, 0, 100) \o PyStr(i)),
                        text        |-> chunk_text_,
                        chunk_index |-> i \div (size - ovl),
                        word_count  |-> Len(chunk_words),
                        start_word  |-> i,
                        end_word    |-> Min(i + size, Len(words)) ]
         IN  ChunkLoop_FullWindowsOnly(words, size, ovl, i + (size - ovl),
                                       Append(chunks, chunk))

\* A plausible slip: chunk_index is the word offset of the chunk.
RECURSIVE ChunkLoop_IndexIsOffset(_, _, _, _, _)
ChunkLoop_IndexIsOffset(words, size, ovl, i, chunks) ==
    IF i >= Len(words) THEN chunks
    ELSE LET chunk_words == PySlice(words, i, i + size)
             chunk_text_ == PyJoin(chunk_words)
             chunk == [ id          |-> Md5(PySlice(chunk_text_, 0, 100) \o PyStr(i)),
                        text        |-> chunk_text_,
                        chunk_index |-> i,
                        word_count  |-> Len(chunk_words),
                        start_word  |-> i,
                        end_word    |-> Min(i + size, Len(words)) ]
             more == Append(chunks, chunk)
         IN  IF i + size >= Len(words) THEN more
             ELSE ChunkLoop_IndexIsOffset(words, size, ovl, i + (size - ovl), more)

\* The body of the for loop at word offset i, with the chunks made so far;
\* range(0, len(words), stride) for stride > 0, left by the break.
RECURSIVE ChunkLoop(_, _, _, _, _)
ChunkLoop(words, size, ovl, i, chunks) ==
    IF i >= Len(words) THEN chunks
    ELSE LET chunk_words == PySlice(words, i, i + size)
             chunk_text_ == PyJoin(chunk_words)
             chunk == [ id          |-> Md5(PySlice(chunk_text_, 0, 100) \o PyStr(i)),
                        text        |-> chunk_text_,
                        chunk_index |-> i \div (size - ovl),
                        word_count  |-> Len(chunk_words),
                        start_word  |-> i,
                        end_word    |-> Min(i + size, Len(words)) ]
             more == Append(chunks, chunk)
         IN  IF i + size >= Len(words) THEN more
             ELSE ChunkLoop(words, size, ovl, i + (size - ovl), more)

\* chunk_text(text, chunk_size, overlap): range() raises ValueError on a zero
\* step and is empty on a negative one.
chunk_text(t, size, ovl) ==
    IF size - ovl = 0 THEN [status |-> "ValueError", chunks |-> <<>>]
    ELSE IF size - ovl < 0 THEN [status |-> "ok", chunks |-> <<>>]
    ELSE [status |-> "ok", chunks |-> ChunkLoop(PySplit(t), size, ovl, 0, <<>>)]

(***************************************************************************)
(* VectorService.create_embeddings                                         *)
(***************************************************************************)
target_dimension == 384

\* An ndarray: rank 1 (data is the vector) or rank 2 (data is the list of rows).
Shape(arr) ==
    IF arr.rank = 1 THEN <<Len(arr.data)>>
    ELSE <<Len(arr.data), IF arr.data = <<>> THEN 0 ELSE Len(arr.data[1])>>

\* embeddings.reshape(1, -1) of a rank-1 array.
Reshape1(arr) == [rank |-> 2, data |-> <<arr.data>>]

\* np.zeros(n): n zeros.
Zeros(n) == [i \in 1..n |-> 0]

\* np.hstack([embeddings, padding]) with padding = np.zeros((rows, n)).
HStackZeros(arr, n) ==
    [rank |-> 2, data |-> [r \in 1..Len(arr.data) |-> arr.data[r] \o Zeros(n)]]

\* embeddings[:, :n]
Columns(arr, n) ==
    [rank |-> 2, data |-> [r \in 1..Len(arr.data) |-> PySlice(arr.data[r], 0, n)]]

\* A plausible slip: the branch that cuts a too-wide array is missing.
create_embeddings_PadOnly(enc) ==
    LET e2 == IF Len(Shape(enc)) = 1 THEN Reshape1(enc) ELSE enc
        current_dim == Shape(e2)[2]
        e3 == IF current_dim < target_dimension
              THEN HStackZeros(e2, target_dimension - current_dim)
              ELSE e2
    IN  [status |-> "ok", embeddings |-> e3.data]

\* create_embeddings(texts), given enc = self.embedding_model.encode(texts).
create_embeddings(enc) ==
    LET e2 == IF Len(Shape(enc)) = 1 THEN Reshape1(enc) ELSE enc
        current_dim == Shape(e2)[2]
        e3 == IF current_dim # target_dimension
              THEN IF current_dim < target_dimension
                   THEN HStackZeros(e2, target_dimension - current_dim)
                   ELSE Columns(e2, target_dimension)
              ELSE e2
        final_dim == Shape(e3)[2]
    IN  IF final_dim # target_dimension
        THEN [status |-> "ValueError", embeddings |-> <<>>]
        ELSE [status |-> "ok", embeddings |-> e3.data]

(***************************************************************************)
(* Value({e : x \in {v}}) is e with x = v, like LET x == v IN e; the       *)
(* model checker evaluates v once this way, where it evaluates a LET       *)
(* definition again at each use.  AsList(f) is the sequence f, its         *)
(* elements computed.                                                      *)
(***************************************************************************)
Value(S) == CHOOSE v \in S : TRUE
AsList(f) == f \o <<>>

(***************************************************************************)
(* Python's list.sort: stable.  keys[k] is the key of s[k]; the result is  *)
(* s in ascending key order, equal keys in their original order.  A sort   *)
(* with reverse=True is the stable sort by the negated keys.               *)
(***************************************************************************)
StableSortGroups(pairs, group, below) ==
    AsList([p \in 1..Len(pairs) |->
        Value({ group[x][p - below[x]].elem
                : x \in { CHOOSE x \in DOMAIN group :
                            below[x] < p /\ p <= below[x] + Len(group[x]) } })])

StableSort(s, keys) ==
    Value({ Value({ Value({ StableSortGroups(pairs, group, below)
                            : below \in { [x \in DOMAIN group |->
                                Len(SelectSeq(pairs, LAMBDA pr : pr.key < x))] } })
                    : group \in { [x \in {pairs[j].key : j \in 1..Len(pairs)} |->
                                     SelectSeq(pairs, LAMBDA pr : pr.key = x)] } })
            : pairs \in { AsList([j \in 1..Len(s) |->
                              [elem |-> s[j], key |-> keys[j]]]) } })

(***************************************************************************)
(* The collaborators of the index operations.                              *)
(*                                                                         *)
(* The embedding model of these operations counts the words of a small     *)
(* vocabulary (native dimension Len(Vocab), below the target, so every     *)
(* vector is padded by create_embeddings).  Pinecone ranks by the dot      *)
(* product of the query vector and the stored values, best first, equal    *)
(* scores in the order of the index.                                       *)
(***************************************************************************)
Vocab == << <<"a">>, <<"b">>, <<"c">> >>

Count(ws, w) == Cardinality({k \in 1..Len(ws) : ws[k] = w})

EncodeBow(t) ==
    Value({ AsList([i \in 1..Len(Vocab) |-> Count(ws, Vocab[i])])
            : ws \in {PySplit(t)} })

\* self.embedding_model.encode(texts)
EncodeBatch(ts) ==
    [rank |-> 2, data |-> AsList([r \in 1..Len(ts) |-> EncodeBow(ts[r])])]

\* The dot product; the components after Len(Vocab) are create_embeddings'
\* zero padding on both sides.
Dot(u, v) ==
    LET F[i \in 0..Len(Vocab)] == IF i = 0 THEN 0 ELSE F[i - 1] + u[i] * v[i]
    IN  F[Len(Vocab)]

NoFilter == [on |-> FALSE, eq |-> <<>>]
DocumentIdFilter(document_id) == [on |-> TRUE, eq |-> document_id]

\* index.query(vector, filter, top_k, include_metadata=True) answered in
\* full: the top_k records that pass the filter, best score first.
PineconeQuery(idx, vector, filter, top_k) ==
    Value({ PySlice(StableSort(matches,
                        [k \in 1..Len(matches) |-> 0 - matches[k].score]),
                    0, top_k)
            : matches \in
                { AsList([k \in 1..Len(cand) |->
                        [ id       |-> cand[k].id,
                          score    |-> Dot(vector, cand[k].values),
                          metadata |-> cand[k].metadata ]])
                  : cand \in { SelectSeq(idx, LAMBDA r :
                        ~filter.on \/ r.metadata.document_id = filter.eq) } } })

\* One index.query call under a fault of the service: "none" (answered in
\* full), "empty" (answered with no match) or "raise" (the call raises).
QueryAnswer(idx, vector, filter, top_k, fault) ==
    CASE fault = "none"  -> [ok |-> TRUE, matches |-> PineconeQuery(idx, vector, filter, top_k)]
      [] fault = "empty" -> [ok |-> TRUE, matches |-> <<>>]
      [] fault = "raise" -> [ok |-> FALSE, matches |-> <<>>]

\* How the service treats the queries of one retrieve_relevant_chunks call:
\* the fault of the filtered query and the fault of the unfiltered ones.
Modes == {"ok", "filter_empty", "filter_error", "down"}
FilteredFault(mode) ==
    CASE mode = "ok" -> "none" [] mode = "filter_empty" -> "empty"
      [] mode = "filter_error" -> "raise" [] mode = "down" -> "raise"
UnfilteredFault(mode) == IF mode = "down" THEN "raise" ELSE "none"

\* index.upsert(vectors=batch): a record with a known id is replaced in
\* place, a new one is added; of two records of the batch with one id the
\* later one stays, at the place of the earlier.  known is the set of ids
\* in the index, written[id] the record the batch leaves under id.
UpsertRecords(idx, batch, known, written) ==
    Value({ old \o [k \in 1..Len(new) |-> new[k].record]
            : old \in { AsList([k \in 1..Len(idx) |->
                          IF idx[k].id \in DOMAIN written THEN written[idx[k].id]
                          ELSE idx[k]]) },
              new \in { SelectSeq(
                          [j \in 1..Len(batch) |->
                              [ record |-> written[batch[j].id],
                                first  |-> /\ batch[j].id \notin known
                                           /\ \A i \in 1..(j - 1) :
                                                 batch[i].id # batch[j].id ]],
                          LAMBDA v : v.first) } })

Upsert(idx, batch) ==
    Value({ UpsertRecords(idx, batch, known, written)
            : known \in { {idx[k].id : k \in 1..Len(idx)} },
              written \in { [id \in {batch[j].id : j \in 1..Len(batch)} |->
                              batch[CHOOSE j \in 1..Len(batch) :
                                      /\ batch[j].id = id
                                      /\ \A i \in (j + 1)..Len(batch) :
                                            batch[i].id # id]] } })

(***************************************************************************)
(* Scoped document ids                                                     *)
(***************************************************************************)
\* f"{session_id}_{document_id}"
ScopedId(session_id, document_id) == session_id \o <<"_">> \o document_id

(***************************************************************************)
(* VectorService.store_document_chunks                                     *)
(***************************************************************************)
\* The keys the service sets itself; a caller's item under one of them is
\* skipped ("if key not in chunk_metadata").
CoreKeys == {"document_id", "chunk_index", "text", "word_count",
             "start_word", "end_word", "created_at"}

\* A plausible slip: chunk_metadata.update(metadata), every item of the
\* caller written whatever its key.
VectorsToUpsert_CallerWins(document_id, chunks, metadata, embeddings, created_at) ==
    AsList([i \in 1..Len(chunks) |->
        [ id       |-> document_id \o <<"_">> \o chunks[i].id,
          values   |-> embeddings[i],
          metadata |-> [ document_id |-> document_id,
                         chunk_index |-> chunks[i].chunk_index,
                         text        |-> PySlice(chunks[i].text, 0, 1000),
                         word_count  |-> chunks[i].word_count,
                         start_word  |-> chunks[i].start_word,
                         end_word    |-> chunks[i].end_word,
                         created_at  |-> created_at + (i - 1),
                         extra       |-> metadata ] ]])

\* The records built for the chunks (the loop over enumerate(chunks)).
\* metadata lists the caller's items as <<key, value>>, the values already
\* str(value)[:500].  datetime.now() is read once for every chunk, and the
\* clock advances at every read: created_at is what the first read gives.
\* The chunks are those of chunk_text, which have start_word and end_word.
VectorsToUpsert(document_id, chunks, metadata, embeddings, created_at) ==
    Value({ AsList([i \in 1..Len(chunks) |->
                [ id       |-> document_id \o <<"_">> \o chunks[i].id,
                  values   |-> embeddings[i],
                  metadata |-> [ document_id |-> document_id,
                                 chunk_index |-> chunks[i].chunk_index,
                                 text        |-> PySlice(chunks[i].text, 0, 1000),
                                 word_count  |-> chunks[i].word_count,
                                 start_word  |-> chunks[i].start_word,
                                 end_word    |-> chunks[i].end_word,
                                 created_at  |-> created_at + (i - 1),
                                 extra       |-> extra ] ]])
            : extra \in { SelectSeq(metadata, LAMBDA item : item[1] \notin CoreKeys) } })

\* The vectors are upserted in batches of batch_size.
batch_size == 100

\* vectors_to_upsert[batch_idx:batch_idx + batch_size] and its number.
Batch(vectors, batch_idx) == PySlice(vectors, batch_idx, batch_idx + batch_size)
CurrentBatch(batch_idx) == (batch_idx \div batch_size) + 1

\* The loop over range(0, len(vectors_to_upsert), batch_size) from offset
\* batch_idx on, when the upsert of batch number failing_batch raises (0:
\* none does): the index it leaves, and whether it ran to its end.
RECURSIVE UpsertBatches(_, _, _, _)
UpsertBatches(idx, vectors, batch_idx, failing_batch) ==
    IF batch_idx >= Len(vectors) THEN [index |-> idx, ok |-> TRUE]
    ELSE IF CurrentBatch(batch_idx) = failing_batch THEN [index |-> idx, ok |-> FALSE]
    ELSE Value({ UpsertBatches(idx2, vectors, batch_idx + batch_size, failing_batch)
                 : idx2 \in { Upsert(idx, Batch(vectors, batch_idx)) } })

\* The reads of the clock in the vector loop: one for every chunk, up to
\* the chunk whose vector has the wrong dimension, where the loop raises.
ClockReads(chunks, embeddings) ==
    IF \E i \in 1..Len(chunks) : Len(embeddings[i]) # target_dimension
    THEN CHOOSE i \in 1..Len(chunks) :
            /\ Len(embeddings[i]) # target_dimension
            /\ \A j \in 1..(i - 1) : Len(embeddings[j]) = target_dimension
    ELSE Len(chunks)

\* store_document_chunks(document_id, chunks, metadata) when the upsert of
\* batch number failing_batch raises (0: none does): the new index, the
\* value returned and the number of times the clock was read.  The
\* verification after the last batch changes none of them.
store_document_chunks(idx, document_id, chunks, metadata, created_at, failing_batch) ==
    IF chunks = <<>> THEN [index |-> idx, success |-> FALSE, reads |-> 0]
    ELSE Value({
            IF emb.status # "ok" THEN [index |-> idx, success |-> FALSE, reads |-> 0]
            ELSE IF \E i \in 1..Len(chunks) :
                        Len(emb.embeddings[i]) # target_dimension
                 THEN [index |-> idx, success |-> FALSE,
                       reads |-> ClockReads(chunks, emb.embeddings)]
            ELSE Value({ [index |-> up.index, success |-> up.ok,
                          reads |-> Len(chunks)]
                         : up \in { UpsertBatches(idx,
                                        VectorsToUpsert(document_id, chunks,
                                            metadata, emb.embeddings, created_at),
                                        0, failing_batch) } })
            : emb \in { create_embeddings(
                           EncodeBatch([i \in 1..Len(chunks) |-> chunks[i].text])) } })

(***************************************************************************)
(* VectorService.get_document_info and VectorService.delete_document       *)
(***************************************************************************)
\* get_document_info(document_id) under a fault of its query: a raising
\* query is caught and reported like a document that is not there.
InfoTopK == 50
get_document_info(idx, document_id, fault) ==
    Value({ IF ~answer.ok \/ answer.matches = <<>>
            THEN [ exists |-> FALSE, chunk_count |-> 0,
                   index_total_vectors |-> 0, created_at |-> None ]
            ELSE [ exists |-> TRUE, chunk_count |-> Len(answer.matches),
                   index_total_vectors |-> Len(idx),
                   created_at |-> <<answer.matches[1].metadata.created_at>> ]
            : answer \in { QueryAnswer(idx, Zeros(target_dimension),
                               DocumentIdFilter(document_id), InfoTopK, fault) } })

\* index.delete(ids=batch_ids): the records with these ids leave the index.
IndexDelete(idx, ids) ==
    Value({ SelectSeq(idx, LAMBDA r : r.id \notin gone)
            : gone \in { {ids[k] : k \in 1..Len(ids)} } })

\* The ids of one document are asked for with this cap and deleted in
\* batches of this size.
DeleteTopK == 10000
DeleteBatchSize == 1000

\* The loop over range(0, len(vector_ids), batch_size) from offset i on,
\* when delete call number failing_delete raises (0: none does).
RECURSIVE DeleteBatches(_, _, _, _)
DeleteBatches(idx, vector_ids, i, failing_delete) ==
    IF i >= Len(vector_ids) THEN [index |-> idx, success |-> TRUE]
    ELSE IF (i \div DeleteBatchSize) + 1 = failing_delete
         THEN [index |-> idx, success |-> FALSE]
    ELSE Value({ DeleteBatches(idx2, vector_ids, i + DeleteBatchSize, failing_delete)
                 : idx2 \in { IndexDelete(idx,
                                 PySlice(vector_ids, i, i + DeleteBatchSize)) } })

\* delete_document(document_id) under a fault of its query, when delete
\* call number failing_delete raises: the new index and the value returned.
delete_document(idx, document_id, fault, failing_delete) ==
    Value({ IF ~answer.ok THEN [index |-> idx, success |-> FALSE]
            ELSE IF answer.matches = <<>> THEN [index |-> idx, success |-> TRUE]
            ELSE DeleteBatches(idx,
                     [k \in 1..Len(answer.matches) |-> answer.matches[k].id],
                     0, failing_delete)
            : answer \in { QueryAnswer(idx, Zeros(target_dimension),
                               DocumentIdFilter(document_id), DeleteTopK, fault) } })

(***************************************************************************)
(* VectorService.retrieve_relevant_chunks                                  *)
(***************************************************************************)
\* "Filter manually for our document": the matches whose metadata carries
\* the wanted document_id.
ManualFilter(matches, document_id) ==
    SelectSeq(matches, LAMBDA match : match.metadata.document_id = document_id)

\* A plausible slip: no second strategy.
search_with_fallback_FilteredOnly(idx, query_embedding, document_id, top_k, mode) ==
    Value({ IF s1.ok THEN s1.matches ELSE <<>>
            : s1 \in { QueryAnswer(idx, query_embedding,
                           DocumentIdFilter(document_id), top_k,
                           FilteredFault(mode)) } })

\* _search_with_fallback: the matches handed back (SimpleNamespace(matches=[])
\* when both strategies give nothing or raise).
search_with_fallback(idx, query_embedding, document_id, top_k, mode) ==
    Value({ IF s1.ok /\ s1.matches # <<>> THEN s1.matches
            ELSE Value({ IF s2.ok /\ ManualFilter(s2.matches, document_id) # <<>>
                         THEN ManualFilter(s2.matches, document_id)
                         ELSE <<>>
                         : s2 \in { QueryAnswer(idx, query_embedding, NoFilter,
                                        top_k, UnfilteredFault(mode)) } })
            : s1 \in { QueryAnswer(idx, query_embedding,
                           DocumentIdFilter(document_id), top_k,
                           FilteredFault(mode)) } })

\* The chunk dict built for a match.
ChunkData(match) ==
    [ id          |-> match.id,
      text        |-> match.metadata.text,
      score       |-> match.score,
      chunk_index |-> match.metadata.chunk_index,
      word_count  |-> match.metadata.word_count,
      start_word  |-> match.metadata.start_word,
      end_word    |-> match.metadata.end_word ]

\* create_embeddings([query])
QueryEmbedding(query) == create_embeddings(EncodeBatch(<<query>>))

\* relevant_chunks.sort(key=lambda x: x["chunk_index"])
SortByChunkIndex(relevant_chunks) ==
    StableSort(relevant_chunks,
               [k \in 1..Len(relevant_chunks) |-> relevant_chunks[k].chunk_index])

retrieve_relevant_chunks(idx, query, document_id, top_k, mode) ==
    IF PySplit(query) = <<>> THEN <<>>
    ELSE Value({
            IF emb.status # "ok" THEN <<>>
            ELSE IF Len(emb.embeddings[1]) # target_dimension THEN <<>>
            ELSE Value({ SortByChunkIndex(relevant_chunks)
                         : relevant_chunks \in
                             { AsList([k \in 1..Len(matches) |-> ChunkData(matches[k])])
                               : matches \in
                                   { search_with_fallback(idx, emb.embeddings[1],
                                         document_id, top_k, mode) } } })
            : emb \in { QueryEmbedding(query) } })

(***************************************************************************)
(* The multi-query merge of analysis.py (_retrieve_multi_query_chunks) and *)
(* chatbot.py (_retrieve_contextual_chunks).                               *)
(***************************************************************************)
\* A plausible slip: a chunk seen again takes the tag of the later query.
RECURSIVE AddChunks_LastTagWins(_, _, _, _)
AddChunks_LastTagWins(all_chunks, chunks, key, tag) ==
    IF chunks = <<>> THEN all_chunks
    ELSE Value({ AddChunks_LastTagWins(more, rest, key, tag)
                 : more \in { IF \E k \in 1..Len(all_chunks) :
                                     all_chunks[k].id = chunks[1].id
                              THEN AsList([k \in 1..Len(all_chunks) |->
                                      IF all_chunks[k].id = chunks[1].id
                                      THEN (key :> tag) @@ chunks[1]
                                      ELSE all_chunks[k]])
                              ELSE Append(all_chunks, (key :> tag) @@ chunks[1]) },
                   rest \in { Tail(chunks) } })

\* The loop "for chunk in chunks: if chunk_id not in seen_chunk_ids: ...":
\* a chunk whose id is new is tagged under key and appended.
RECURSIVE AddChunks(_, _, _, _)
AddChunks(all_chunks, chunks, key, tag) ==
    IF chunks = <<>> THEN all_chunks
    ELSE Value({ AddChunks(more, rest, key, tag)
                 : more \in { IF \E k \in 1..Len(all_chunks) :
                                     all_chunks[k].id = chunks[1].id
                              THEN all_chunks
                              ELSE Append(all_chunks, (key :> tag) @@ chunks[1]) },
                   rest \in { Tail(chunks) } })

\* A plausible slip: the merged list is left in the order of arrival.
SortByScore_NoSort(all_chunks) == all_chunks

\* all_chunks.sort(key=lambda x: x.get('score', 0.0), reverse=True)
SortByScore(all_chunks) ==
    StableSort(all_chunks, [k \in 1..Len(all_chunks) |-> 0 - all_chunks[k].score])

\* A plausible slip: the merged list is returned whole.
CutToTopK_NoCut(all_chunks, top_k) == all_chunks

\* all_chunks[:top_k]
CutToTopK(all_chunks, top_k) == PySlice(all_chunks, 0, top_k)

\* The calls made for a list of queries: calls[k] is the k-th
\* retrieve_relevant_chunks call, with what it returned.
Calls(idx, document_id, queries, top_ks, modes) ==
    AsList([k \in 1..Len(queries) |->
        [ query       |-> queries[k],
          document_id |-> document_id,
          top_k       |-> top_ks[k],
          mode        |-> modes[k],
          chunks      |-> retrieve_relevant_chunks(idx, queries[k], document_id,
                                                   top_ks[k], modes[k]) ]])

\* A plausible slip: a query that comes back with nothing ends the loop.
RECURSIVE MergeCalls_StopAtEmpty(_, _, _, _, _)
MergeCalls_StopAtEmpty(all_chunks, calls, k, key, tags) ==
    IF k > Len(calls) \/ calls[k].chunks = <<>> THEN all_chunks
    ELSE Value({ MergeCalls_StopAtEmpty(more, calls, k + 1, key, tags)
                 : more \in { AddChunks(all_chunks, calls[k].chunks, key, tags[k]) } })

\* The loop over the queries: the chunks of each call are added under the
\* tag of the call.
RECURSIVE MergeCalls(_, _, _, _, _)
MergeCalls(all_chunks, calls, k, key, tags) ==
    IF k > Len(calls) THEN all_chunks
    ELSE Value({ MergeCalls(more, calls, k + 1, key, tags)
                 : more \in { AddChunks(all_chunks, calls[k].chunks, key, tags[k]) } })

\* 'primary', f'secondary_{i+1}' for i = 0, 1, ...
QueryTypeTag(k) ==
    CASE k = 1 -> "primary" [] k = 2 -> "secondary_1" [] k = 3 -> "secondary_2"
      [] k = 4 -> "secondary_3"

\* 'primary' if i == 0 else f'expanded_{i}'
QuerySourceTag(k) ==
    CASE k = 1 -> "primary" [] k = 2 -> "expanded_1" [] k = 3 -> "expanded_2"

\* A plausible slip: the merge stops as soon as it holds top_k chunks.
RECURSIVE MergeUntilFull(_, _, _, _, _, _)
MergeUntilFull(all_chunks, calls, k, key, tags, top_k) ==
    IF k > Len(calls) \/ Len(all_chunks) >= top_k THEN all_chunks
    ELSE Value({ MergeUntilFull(more, calls, k + 1, key, tags, top_k)
                 : more \in { AddChunks(all_chunks, calls[k].chunks, key, tags[k]) } })
Merged_StopWhenFull(calls, key, tags, top_k) ==
    Value({ [ calls |-> calls, all_chunks |-> all_chunks,
              result |-> CutToTopK(all_chunks, top_k) ]
            : all_chunks \in { SortByScore(MergeUntilFull(<<>>, calls, 1, key, tags, top_k)) } })

\* The outcome of a merge: the calls, the merged list after the sort by
\* score, and the list returned.
Merged(calls, key, tags, top_k) ==
    Value({ [ calls |-> calls, all_chunks |-> all_chunks,
              result |-> CutToTopK(all_chunks, top_k) ]
            : all_chunks \in { SortByScore(MergeCalls(<<>>, calls, 1, key, tags)) } })

\* _retrieve_multi_query_chunks(document_id, primary_query,
\* secondary_queries, top_k)
retrieve_multi_query_chunks(idx, document_id, primary_query, secondary_queries, top_k, modes) ==
    Value({ Value({ Merged(calls, "query_type",
                           [k \in 1..Len(queries) |-> QueryTypeTag(k)], top_k)
                    : calls \in { Calls(idx, document_id, queries,
                                     [k \in 1..Len(queries) |->
                                         IF k = 1 THEN top_k
                                         ELSE Max(1, top_k \div 2)],
                                     modes) } })
            : queries \in { <<primary_query>> \o secondary_queries } })

\* The texts that stand for the query strings of the code, over Vocab.
Q_ab == <<"a", " ", "b">>
Q_c == <<"c">>
Q_ccb == <<"c", " ", "c", " ", "b">>
Q_a == <<"a">>
Q_b == <<"b">>

\* query_strategies.get(analysis_type, default) of
\* get_enhanced_comprehensive_chunks: three secondaries for a known type,
\* two for any other.
QueryStrategy(analysis_type) ==
    IF analysis_type = "risk"
    THEN [primary |-> Q_ccb, secondary |-> <<Q_a, Q_b, Q_ab>>]
    ELSE [primary |-> Q_ab, secondary |-> <<Q_c, Q_ccb>>]

AnalysisTypes == {"risk", "other"}
AnalysisTopK == 20

\* _expand_query_for_retrieval(user_message, question_type), for a message
\* that names no legal term: the message, then the expansions of the type.
expand_query_for_retrieval(user_message, question_type) ==
    PySlice(CASE question_type = "risk_analysis" -> <<user_message, Q_a, Q_b>>
              [] question_type = "comparative"   -> <<user_message, Q_c>>
              [] question_type = "yes_no"        -> <<user_message, user_message>>
              [] OTHER                           -> <<user_message>>,
            0, 3)

QuestionTypes == {"risk_analysis", "yes_no", "general"}
ChatTopK == 10

\* _retrieve_contextual_chunks(document_id, user_message, question_type,
\* top_k), without the formatted context.
retrieve_contextual_chunks(idx, document_id, user_message, question_type, top_k, modes) ==
    Value({ Value({ Merged(calls, "query_source",
                           [k \in 1..Len(search_queries) |-> QuerySourceTag(k)],
                           top_k)
                    : calls \in { Calls(idx, document_id, search_queries,
                                     [k \in 1..Len(search_queries) |->
                                         IF k = 1 THEN top_k
                                         ELSE Max(5, top_k \div 2)],
                                     modes) } })
            : search_queries \in
                  { expand_query_for_retrieval(user_message, question_type) } })

(***************************************************************************)
(* SimpleConversationStore (chatbot.py).  A store is the dict              *)
(* self.conversations: a function from the session ids that have a log to  *)
(* their logs.  None (no document_id) is the empty string's sequence, which *)
(* is falsy like None wherever the code tests it.                          *)
(***************************************************************************)
max_history_per_session == 20

\* s[-n:] for n >= 0; -0 is 0, so s[-0:] is the whole of s.
PyTail(s, n) ==
    IF n = 0 THEN s ELSE SubSeq(s, Max(1, Len(s) - n + 1), Len(s))

\* self.conversations.get(session_id, [])
LogOf(store, session_id) ==
    IF session_id \in DOMAIN store THEN store[session_id] ELSE <<>>

\* The message dict of add_message.
Message(role, content, timestamp, document_id) ==
    [ role |-> role, content |-> content, timestamp |-> timestamp,
      document_id |-> document_id ]

\* A plausible slip: the log is cut at the tail, so the newest message is
\* the one dropped.
add_message_KeepHead(store, session_id, role, content, document_id, timestamp) ==
    Value({ (session_id :>
                IF Len(log) > max_history_per_session
                THEN PySlice(log, 0, max_history_per_session)
                ELSE log) @@ store
            : log \in { Append(LogOf(store, session_id),
                               Message(role, content, timestamp, document_id)) } })

\* A plausible slip: the log is cut to the cap before the message is
\* appended.
add_message_TrimBeforeAppend(store, session_id, role, content, document_id, timestamp) ==
    Value({ (session_id :>
                Append(IF Len(log) > max_history_per_session
                       THEN PyTail(log, max_history_per_session)
                       ELSE log,
                       Message(role, content, timestamp, document_id))) @@ store
            : log \in { LogOf(store, session_id) } })

\* add_message(session_id, role, content, document_id) at time timestamp:
\* the store after the call.
add_message(store, session_id, role, content, document_id, timestamp) ==
    Value({ (session_id :>
                IF Len(log) > max_history_per_session
                THEN PyTail(log, max_history_per_session)
                ELSE log) @@ store
            : log \in { Append(LogOf(store, session_id),
                               Message(role, content, timestamp, document_id)) } })

\* get_history(session_id, last_n)
get_history(store, session_id, last_n) == PyTail(LogOf(store, session_id), last_n)

\* clear_history(session_id): the store after the call.
clear_history(store, session_id) ==
    [s \in DOMAIN store \ {session_id} |-> store[s]]

\* A plausible slip: the summary of a session without a log is built like
\* any other.
get_summary_NoEmptyCase(store, session_id) ==
    Value({ [ message_count |-> Len(messages), exists |-> TRUE,
              documents_discussed |->
                  {messages[k].document_id : k \in
                      {k \in 1..Len(messages) : messages[k].document_id # None}} ]
            : messages \in { LogOf(store, session_id) } })

\* get_summary(session_id); documents_discussed, a list made from a set, is
\* the set.
get_summary(store, session_id) ==
    Value({ IF messages = <<>>
            THEN [message_count |-> 0, exists |-> FALSE]
            ELSE [ message_count |-> Len(messages), exists |-> TRUE,
                   first_message_time |-> messages[1].timestamp,
                   last_message_time |-> messages[Len(messages)].timestamp,
                   documents_discussed |->
                       {messages[k].document_id : k \in
                           {k \in 1..Len(messages) : messages[k].document_id # None}} ]
            : messages \in { LogOf(store, session_id) } })

\* ConversationSummaryResponse(**): the fields the endpoint reads with
\* summary.get(key, default).
SummaryResponse(summary, session_id) ==
    [ message_count |-> summary.message_count, exists |-> summary.exists,
      documents_discussed |->
          IF "documents_discussed" \in DOMAIN summary
          THEN summary.documents_discussed ELSE {},
      session_id |-> session_id ]

\* The fixed texts of llm_service.py and chatbot.py that reach the caller.
Key_content ==
    <<"c", "o", "n", "t", "e", "n", "t">>
Key_response ==
    <<"r", "e", "s", "p", "o", "n", "s", "e">>
Key_result ==
    <<"r", "e", "s", "u", "l", "t">>
Key_text ==
    <<"t", "e", "x", "t">>
Key_error ==
    <<"e", "r", "r", "o", "r">>
Key_analysis ==
    <<"a", "n", "a", "l", "y", "s", "i", "s">>
Key_type ==
    <<"t", "y", "p", "e">>
ErrorType ==
    <<"e", "r", "r", "o", "r">>
AllGroqMethodsFailed ==
    <<"A", "l", "l", " ", "G", "r", "o", "q", " ", "m", "e", "t", "h", "o",
      "d", "s", " ", "f", "a", "i", "l", "e", "d", ":", " ">>
FailedToAnalyze ==
    <<"F", "a", "i", "l", "e", "d", " ", "t", "o", " ", "a", "n", "a", "l",
      "y", "z", "e", " ", "d", "o", "c", "u", "m", "e", "n", "t", ":", " ">>
LlmNotConfigured ==
    <<"G", "r", "o", "q", " ", "L", "L", "M", " ", "i", "s", " ", "n", "o",
      "t", " ", "c", "o", "n", "f", "i", "g", "u", "r", "e", "d", " ", "o",
      "r", " ", "i", "n", "i", "t", "i", "a", "l", "i", "z", "e", "d">>
KeyNotConfigured ==
    <<"G", "r", "o", "q", " ", "A", "P", "I", " ", "k", "e", "y", " ", "n",
      "o", "t", " ", "c", "o", "n", "f", "i", "g", "u", "r", "e", "d", " ",
      "i", "n", " ", "s", "e", "t", "t", "i", "n", "g", "s">>
Answer ==
    <<"T", "h", "e", " ", "b", "o", "n", "d", " ", "i", "s", " ", "f", "i",
      "v", "e", " ", "l", "a", "k", "h", ".">>
IncompleteWarning ==
    <<"R", "e", "s", "p", "o", "n", "s", "e", " ", "m", "a", "y", " ", "b",
      "e", " ", "i", "n", "c", "o", "m", "p", "l", "e", "t", "e", " ", "-",
      " ", "c", "o", "n", "s", "i", "d", "e", "r", " ", "a", "s", "k", "i",
      "n", "g", " ", "f", "o", "r", " ", "m", "o", "r", "e", " ", "d", "e",
      "t", "a", "i", "l">>
DetailsWarning ==
    <<"R", "e", "s", "p", "o", "n", "s", "e", " ", "m", "a", "y", " ", "c",
      "o", "n", "t", "a", "i", "n", " ", "d", "e", "t", "a", "i", "l", "s",
      " ", "n", "o", "t", " ", "p", "r", "e", "s", "e", "n", "t", " ", "i",
      "n", " ", "t", "h", "e", " ", "d", "o", "c", "u", "m", "e", "n", "t",
      " ", "-", " ", "v", "e", "r", "i", "f", "y", " ", "c", "a", "r", "e",
      "f", "u", "l", "l", "y">>

(***************************************************************************)
(* chat_endpoint (chatbot.py) and its helpers.  A text that only goes into *)
(* the prompt is the sequence of its parts (an empty sequence is the empty  *)
(* string); the texts that reach the caller or the conversation log are    *)
(* character sequences.  A character outside ASCII is written by its       *)
(* Unicode name.                                                           *)
(***************************************************************************)
\* The relevance tag of a score (score > 0.7, score > 0.5, else).
RelevanceTag(score) ==
    IF 10 * score > 7 THEN "HIGH RELEVANCE"
    ELSE IF 10 * score > 5 THEN "RELEVANT" ELSE "CONTEXT"

\* _format_chunks_for_chatbot(chunks, question_type): "" for no chunk, else
\* the sections joined by "\n", one section per chunk.
format_chunks_for_chatbot(chunks, question_type) ==
    AsList([i \in 1..Len(chunks) |->
        [ relevance_tag |-> RelevanceTag(chunks[i].score),
          section       |-> chunks[i].chunk_index + 1,
          relevance     |-> chunks[i].score,
          chunk_text    |-> chunks[i].text ]])

\* "\n".join(lines)
RECURSIVE JoinLinesRange(_, _, _)
JoinLinesRange(lines, lo, hi) ==
    IF lo > hi THEN <<>>
    ELSE IF lo = hi THEN lines[lo]
    ELSE LET mid == (lo + hi) \div 2
         IN  JoinLinesRange(lines, lo, mid) \o <<"\n">>
                 \o JoinLinesRange(lines, mid + 1, hi)

JoinLines(lines) == JoinLinesRange(lines, 1, Len(lines))

\* The literals of _format_conversation_history.
HistoryRule == [i \in 1..66 |-> "BOX DRAWINGS HEAVY HORIZONTAL"]
HistoryHeader ==
    <<"SCROLL", " ", "P", "R", "E", "V", "I", "O", "U", "S", " ", "C", "O",
      "N", "V", "E", "R", "S", "A", "T", "I", "O", "N", " ", "C", "O", "N",
      "T", "E", "X", "T", ":">>
\* "USER" if msg['role'] == 'user' else "ASSISTANT"
RoleLabel(role) ==
    IF role = "user" THEN <<"U", "S", "E", "R">>
    ELSE <<"A", "S", "S", "I", "S", "T", "A", "N", "T">>

\* The most a message shows of its content, and the history messages shown.
HistoryContentCap == 300
HistoryShown == 6

\* A plausible slip: the first messages of the history are shown.
HistoryWindow_Oldest(history) == PySlice(history, 0, HistoryShown)

\* history[-6:]
HistoryWindow(history) == PyTail(history, HistoryShown)

\* A plausible slip: the content is shown whole.
ShownContent_Whole(content) == content

\* msg['content'][:300] + "..." if len(msg['content']) > 300 else msg['content']
ShownContent(content) ==
    IF Len(content) > HistoryContentCap
    THEN PySlice(content, 0, HistoryContentCap) \o <<".", ".", ".">>
    ELSE content

\* _format_conversation_history(history)
format_conversation_history(history) ==
    IF history = <<>> THEN <<>>
    ELSE Value({ JoinLines(<<HistoryRule, HistoryHeader, HistoryRule \o <<"\n">>>>
                     \o [k \in 1..Len(window) |->
                            <<"[">> \o RoleLabel(window[k].role) \o <<"]", ":", " ">>
                                \o ShownContent(window[k].content) \o <<"\n">>]
                     \o <<HistoryRule>>)
                 : window \in { HistoryWindow(history) } })

\* _build_enhanced_system_prompt: the blocks of the prompt, in order.
build_enhanced_system_prompt(has_document_context, question_type, has_conversation_history) ==
    <<"base_prompt">>
    \o (IF has_document_context THEN <<"DOCUMENT CONTEXT IS PROVIDED">>
        ELSE <<"NO DOCUMENT CONTEXT AVAILABLE">>)
    \o (IF has_conversation_history THEN <<"CONVERSATION HISTORY IS PROVIDED">>
        ELSE <<>>)
    \o (CASE question_type = "yes_no" -> <<"ANSWERING YES/NO QUESTION">>
          [] question_type = "risk_analysis" -> <<"RISK ANALYSIS QUESTION">>
          [] question_type = "comparative" -> <<"COMPARATIVE QUESTION">>
          [] OTHER -> <<>>)

\* A plausible slip: the prompt takes the document branch whenever the
\* context text is not empty.
HasDocumentContext_ContextOnly(document_context, relevant_chunks) ==
    document_context # <<>>

\* bool(document_context and relevant_chunks)
HasDocumentContext(document_context, relevant_chunks) ==
    document_context # <<>> /\ relevant_chunks # <<>>

\* Steps 3 to 5 of chat_endpoint: the retrieval outcome r (NoRetrieval when
\* use_rag is off or no document_id is given) becomes relevant_chunks, the
\* document context and the prompt.
Prompt(request, r, has_history) ==
    Value({ [ relevant_chunks  |-> r.result,
              document_context |-> document_context,
              system_prompt    |->
                  build_enhanced_system_prompt(
                      HasDocumentContext(document_context, r.result),
                      request.question_type, has_history),
              prompt_parts |->
                  <<"system_prompt">>
                  \o (IF has_history THEN <<"formatted_history">> ELSE <<>>)
                  \o (IF document_context # <<>>
                      THEN <<"RELEVANT DOCUMENT SECTIONS", "document_context">>
                      ELSE <<>>)
                  \o <<"CURRENT USER QUESTION", "message">>
                  \o (IF HasDocumentContext(document_context, r.result)
                      THEN <<"ANSWERING INSTRUCTIONS: document">>
                      ELSE <<"ANSWERING INSTRUCTIONS: general">>) ]
            : document_context \in
                { IF ~(request.use_rag /\ request.document_id # None) THEN <<>>
                  ELSE IF r.result # <<>>
                       THEN format_chunks_for_chatbot(r.result, request.question_type)
                       ELSE <<"No relevant content found in the document">> } })

\* The language model behind llm_service: what the LangChain call and the
\* direct API call do when they are made.  A completion is a text that is
\* not JSON.
Completed(content) == [ok |-> TRUE, content |-> content, error |-> <<>>]
Failed(error) == [ok |-> FALSE, content |-> <<>>, error |-> error]

\* call_groq(prompt, system_message): the dict returned, as its items in
\* insertion order.  The method raises in no case.
call_groq(langchain, direct) ==
    IF langchain.ok THEN << <<Key_result, langchain.content>> >>
    ELSE IF direct.ok THEN << <<Key_result, direct.content>> >>
    ELSE << <<Key_error, AllGroqMethodsFailed \o direct.error>>,
            <<Key_analysis, FailedToAnalyze \o direct.error>>,
            <<Key_type, ErrorType>> >>

\* d.get(key)
DictGet(d, key) ==
    IF \E k \in 1..Len(d) : d[k][1] = key
    THEN d[CHOOSE k \in 1..Len(d) : d[k][1] = key][2]
    ELSE None

\* repr of a str without quote characters, and str of a dict of such strs.
PyRepr(s) == <<"'">> \o s \o <<"'">>
RECURSIVE DictItems(_, _)
DictItems(d, k) ==
    IF k > Len(d) THEN <<>>
    ELSE (IF k > 1 THEN <<",", " ">> ELSE <<>>)
         \o PyRepr(d[k][1]) \o <<":", " ">> \o PyRepr(d[k][2])
         \o DictItems(d, k + 1)
StrDict(d) == <<"{">> \o DictItems(d, 1) \o <<"}">>

\* final_answer of chat_endpoint for a dict llm_response: the first truthy
\* of its content, response, result and text, else str(llm_response).
FinalAnswer(llm_response) ==
    IF DictGet(llm_response, Key_content) # <<>> THEN DictGet(llm_response, Key_content)
    ELSE IF DictGet(llm_response, Key_response) # <<>> THEN DictGet(llm_response, Key_response)
    ELSE IF DictGet(llm_response, Key_result) # <<>> THEN DictGet(llm_response, Key_result)
    ELSE IF DictGet(llm_response, Key_text) # <<>> THEN DictGet(llm_response, Key_text)
    ELSE StrDict(llm_response)

\* re.findall(r'\$[\d,]+|\d+\s*(?:days|months|years)', response) for the
\* responses of the model, which hold no '$' and no digit.
ResponseNumbers(response) == <<>>

\* "; ".join(warnings)
RECURSIVE JoinWarnings(_, _)
JoinWarnings(warnings, k) ==
    IF k > Len(warnings) THEN <<>>
    ELSE (IF k > 1 THEN <<";", " ">> ELSE <<>>) \o warnings[k]
         \o JoinWarnings(warnings, k + 1)

\* _verify_response_quality(response, chunks, question): the response
\* returned, with the note of the warnings when there are any.
verify_response_quality(response, chunks, question) ==
    Value({ IF warnings = <<>> THEN response
            ELSE response \o <<"\n", "\n", "WARNING SIGN", "VARIATION SELECTOR-16",
                               " ", "N", "o", "t", "e", ":", " ">>
                 \o JoinWarnings(warnings, 1)
            : warnings \in
                { (IF Len(PySplit(question)) > 5 /\ Len(PySplit(response)) < 20
                   THEN <<IncompleteWarning>> ELSE <<>>)
                  \o (IF chunks # <<>> /\ Len(response) > 100
                         /\ ResponseNumbers(response) # <<>>
                      THEN <<DetailsWarning>> ELSE <<>>) } })

\* A plausible slip: the assistant message is stored only when the answer
\* came without a quality warning.
StoreTurn_AnswerIfClean(store, session_id, message, final_answer, document_id, timestamp) ==
    IF final_answer = Answer
    THEN add_message(
             add_message(store, session_id, "user", message, document_id, timestamp),
             session_id, "assistant", final_answer, document_id, timestamp + 1)
    ELSE add_message(store, session_id, "user", message, document_id, timestamp)

\* Step 8 of chat_endpoint: the two add_message calls, one after the other
\* with no await between them.
StoreTurn(store, session_id, message, final_answer, document_id, timestamp) ==
    add_message(
        add_message(store, session_id, "user", message, document_id, timestamp),
        session_id, "assistant", final_answer, document_id, timestamp + 1)

(***************************************************************************)
(* The embedding model is a collaborator: a text's native vector has any   *)
(* dimension d and any components.  EncodeText is a family of such models, *)
(* one for each (d, seed), with components in -1..1 that vary along the    *)
(* vector and from text to text.                                           *)
(***************************************************************************)
EncodeText(t, d, seed) == [i \in 1..d |-> ((Len(t) + seed * i + i) % 3) - 1]

\* encode(texts) of a list: one row per text.
Encode(ts, d, seed) ==
    [rank |-> 2, data |-> [r \in 1..Len(ts) |-> EncodeText(ts[r], d, seed)]]

NativeDims ==
    (0..MaxDimDelta)
      \cup ((target_dimension - MaxDimDelta)..(target_dimension + MaxDimDelta))

EmbedTexts == {<<"a">>, <<"a", " ", "a">>}

\* What encode may hand back for a batch: the rank-2 array of the rows, and
\* for a single text also the bare rank-1 vector.
EncodeOutputs(ts) ==
    {Encode(ts, d, seed) : d \in NativeDims, seed \in 0..MaxSeed}
      \cup (IF Len(ts) = 1
            THEN {[rank |-> 1, data |-> EncodeText(ts[1], d, seed)] :
                      d \in NativeDims, seed \in 0..MaxSeed}
            ELSE {})

(***************************************************************************)
(* The chunker on its own: every text of the bounds, every pair of         *)
(* arguments around the valid range, and the 1000-word document of the     *)
(* end-to-end scenario with the /store_chunks defaults.                    *)
(***************************************************************************)
DefaultChunkSize == 500
DefaultOverlap == 100
ScenarioWords == 2 * DefaultChunkSize

Chars == {"a", " "}
Texts == UNION {[1..n -> Chars] : n \in 0..MaxTextLen}

\* n one-letter words separated by single blanks.
WordsText(n) == [i \in 1..(2 * n - 1) |-> IF i % 2 = 1 THEN "a" ELSE " "]

ChunkInputs ==
    (Texts \X (1..MaxChunkSize) \X (-1..(MaxChunkSize + 1)))
      \cup {<<WordsText(ScenarioWords), DefaultChunkSize, DefaultOverlap>>}

\* No request has been served against the index.
NoRequest ==
    [ op |-> "none", session_id |-> <<>>, document_id |-> <<>>, kind |-> "",
      top_k |-> 0, status |-> "", calls |-> <<>>, all_chunks |-> <<>>,
      result |-> <<>> ]

IndexIdle == index = <<>> /\ now = 0 /\ last = NoRequest

\* No call of store_document_chunks is in progress.
IdleStore ==
    [ pc |-> "idle", document_id |-> <<>>, expected_chunks |-> 0,
      vectors |-> <<>>, batch_idx |-> 0, failing_batch |-> 0, created_at |-> 0,
      upserted |-> <<>>, verified |-> FALSE,
      found_chunks |-> None, success |-> FALSE ]

StoreIdle == storing = IdleStore

\* The chat_endpoint coroutines the event loop can hold at a time.
Workers == {1, 2}

\* No chat request is in flight; no session has a log.
IdleTask ==
    [ pc |-> "idle", session_id |-> <<>>, request |-> <<>>,
      has_history |-> FALSE, prompt |-> <<>> ]

ChatIdle ==
    /\ conversations = <<>>
    /\ appended = <<>>
    /\ tasks = [w \in Workers |-> IdleTask]

\* No call of create_embeddings is being followed.
EmbedIdle ==
    /\ embed_texts = <<>>
    /\ encoded = [rank |-> 2, data |-> <<>>]
    /\ embed_result = [status |-> "idle", embeddings |-> <<>>]

\* No call of chunk_text is being followed.
ChunkIdle ==
    /\ text = <<>>
    /\ chunk_size = DefaultChunkSize
    /\ overlap = DefaultOverlap
    /\ chunk_result = [status |-> "idle", chunks |-> <<>>]

ChunkArgs ==
    /\ \E in \in ChunkInputs :
          /\ text = in[1]
          /\ chunk_size = in[2]
          /\ overlap = in[3]
    /\ chunk_result = [status |-> "pending", chunks |-> <<>>]

\* One call chunk_text(text, chunk_size, overlap).
ChunkText ==
    /\ chunk_result.status = "pending"
    /\ chunk_result' = chunk_text(text, chunk_size, overlap)
    /\ UNCHANGED <<text, chunk_size, overlap, embedVars, indexVars, chatVars, storeVars>>

ChunkInit == ChunkArgs /\ EmbedIdle /\ IndexIdle /\ ChatIdle /\ StoreIdle

ChunkNext == ChunkText

SpecChunk == ChunkInit /\ [][ChunkNext]_vars

\* The number of words of a text, counted as the places where a word begins.
NumWords(t) ==
    Cardinality({i \in 1..Len(t) : t[i] # " " /\ (i = 1 \/ t[i - 1] = " ")})

ChunkDone == chunk_result.status \in {"ok", "ValueError"}

\* The chunks' word ranges cover every word, start at 0 and end at the last word.
Covers(res, n) ==
    /\ res.status = "ok"
    /\ \A w \in 0..(n - 1) :
          \E k \in 1..Len(res.chunks) :
              res.chunks[k].start_word <= w /\ w < res.chunks[k].end_word
    /\ res.chunks # <<>> =>
          /\ res.chunks[1].start_word = 0
          /\ res.chunks[Len(res.chunks)].end_word = n

\* C1 as stated: coverage for every chunk_size >= 1 and every overlap <
\* chunk_size, negative overlaps included.
C1_CoverageAnyOverlapBelowSize ==
    (ChunkDone /\ chunk_size >= 1 /\ overlap < chunk_size)
        => Covers(chunk_result, NumWords(text))

\* C1 (amended): for every text, every chunk_size >= 1 and every overlap with
\* 0 <= overlap < chunk_size, the chunks' word ranges cover every word of
\* the input, the first chunk starts at word 0 and the last ends at the
\* number of words.
C1_ChunkCoverage ==
    (ChunkDone /\ chunk_size >= 1 /\ 0 <= overlap /\ overlap < chunk_size)
        => Covers(chunk_result, NumWords(text))

\* A valid overlapping call that made several chunks, the last one short.
C1_Witness ==
    /\ ChunkDone /\ chunk_size >= 1 /\ 1 <= overlap /\ overlap < chunk_size
    /\ Len(chunk_result.chunks) >= 2
    /\ chunk_result.chunks[Len(chunk_result.chunks)].word_count < chunk_size

\* C2: a call with overlap = chunk_size or overlap > chunk_size ends in an
\* argument error; it returns no chunk list (and so nothing is embedded or
\* upserted for it).
C2_OverlapNotBelowSizeIsRejected ==
    (ChunkDone /\ overlap >= chunk_size) => chunk_result.status = "ValueError"

IsScenario ==
    /\ chunk_size = DefaultChunkSize /\ overlap = DefaultOverlap
    /\ Len(text) = 2 * ScenarioWords - 1

\* C3 as stated: the 1000-word document with chunk_size 500 and overlap 100
\* yields exactly 2 chunks.
C3_ScenarioYieldsTwoChunks ==
    (ChunkDone /\ IsScenario) =>
        /\ chunk_result.status = "ok"
        /\ Len(chunk_result.chunks) = 2

\* C3 (amended): the 1000-word document with chunk_size 500 and overlap 100
\* yields exactly 3 chunks, chunk_index 0, 1 and 2, over the words 0-500,
\* 400-900 and 800-1000.
C3_ScenarioYieldsThreeChunks ==
    (ChunkDone /\ IsScenario) =>
        /\ chunk_result.status = "ok"
        /\ [k \in 1..Len(chunk_result.chunks) |->
               <<chunk_result.chunks[k].chunk_index,
                 chunk_result.chunks[k].start_word,
                 chunk_result.chunks[k].end_word>>]
             = << <<0, 0, 500>>, <<1, 400, 900>>, <<2, 800, 1000>> >>

\* The scenario document has been chunked.
C3_Witness ==
    ChunkDone /\ IsScenario /\ NumWords(text) = ScenarioWords
             /\ chunk_result.chunks # <<>>

(***************************************************************************)
(* The embedding normaliser on its own: batches of one to MaxBatch texts,  *)
(* native dimensions around 0 and around the target.                       *)
(***************************************************************************)
EmbedArgs ==
    /\ \E n \in 1..MaxBatch : embed_texts \in [1..n -> EmbedTexts]
    /\ encoded = [rank |-> 2, data |-> <<>>]
    /\ embed_result = [status |-> "pending", embeddings |-> <<>>]

\* self.embedding_model.encode(texts) returns.
EncodeTexts ==
    /\ embed_result.status = "pending"
    /\ \E enc \in EncodeOutputs(embed_texts) :
          /\ encoded' = enc
          /\ embed_result' = [status |-> "encoded", embeddings |-> <<>>]
    /\ UNCHANGED <<embed_texts, chunkVars, indexVars, chatVars, storeVars>>

\* The rest of create_embeddings: reshape, pad or cut, verify, return.
CreateEmbeddings ==
    /\ embed_result.status = "encoded"
    /\ embed_result' = create_embeddings(encoded)
    /\ UNCHANGED <<embed_texts, encoded, chunkVars, indexVars, chatVars, storeVars>>

EmbedInit == EmbedArgs /\ ChunkIdle /\ IndexIdle /\ ChatIdle /\ StoreIdle

EmbedNext == EncodeTexts \/ CreateEmbeddings

SpecEmbed == EmbedInit /\ [][EmbedNext]_vars

EmbedDone == embed_result.status \in {"ok", "ValueError"}

\* Row r of what encode returned, whatever its rank.
NativeRow(r) == IF encoded.rank = 1 THEN encoded.data ELSE encoded.data[r]

\* C4: for a batch of one or more texts and any native dimension d,
\* create_embeddings returns one vector per text, each of length exactly
\* target_dimension: the native vector followed by zeros when d < target,
\* its first target_dimension components when d > target, itself when equal.
C4_EmbeddingNormalization ==
    EmbedDone =>
        /\ embed_result.status = "ok"
        /\ Len(embed_result.embeddings) = Len(embed_texts)
        /\ \A r \in 1..Len(embed_texts) :
              /\ Len(embed_result.embeddings[r]) = target_dimension
              /\ \A i \in 1..target_dimension :
                    embed_result.embeddings[r][i] =
                        IF i <= Len(NativeRow(r)) THEN NativeRow(r)[i] ELSE 0
              /\ Len(NativeRow(r)) = target_dimension =>
                    embed_result.embeddings[r] = NativeRow(r)

\* A batch of several texts whose native vectors were narrower than the
\* target and were padded.
C4_Witness ==
    /\ EmbedDone /\ Len(embed_texts) >= 2
    /\ Len(NativeRow(1)) = target_dimension - 1
    /\ NativeRow(1)[target_dimension - 1] # 0
    /\ embed_result.embeddings[2][target_dimension] = 0

\* Other cases of C4 that the bounds reach: a cut vector, an unchanged one,
\* and a rank-1 answer for a single text.
C4_ReachesCut ==
    EmbedDone /\ Len(NativeRow(1)) > target_dimension
              /\ NativeRow(1)[target_dimension + 1] # 0
C4_ReachesEqual == EmbedDone /\ Len(NativeRow(1)) = target_dimension
C4_ReachesRank1 == EmbedDone /\ encoded.rank = 1

(***************************************************************************)
(* The index and its callers: the store endpoints of documents.py, calls   *)
(* of store_document_chunks, the multi-query retrieval of the analysis     *)
(* endpoints and the contextual retrieval of the chat endpoint, run by two *)
(* sessions over two document ids in any order.  Every handler runs to     *)
(* completion, its outcome is handed to the caller (Respond), and the next *)
(* request is served.  VectorService has no method chunk_legal_document,   *)
(* which both store endpoints call: they end in the 500 of their except    *)
(* clause before anything is stored, so the records of the index come from *)
(* calls of store_document_chunks with the chunks of chunk_text and the    *)
(* metadata dict the store endpoint builds.                                *)
(***************************************************************************)
\* current_session["session_id"]: the uid of the verified token.
Sessions == {<<"u">>, <<"u", "_", "x">>}

\* The bodies of the store requests: two documents, a blank text, and an
\* overlap that is not below the chunk size.
StoreRequests ==
    { [ document_id |-> <<"d">>, full_text |-> <<"a", " ", "b", " ", "c">>,
        chunk_size |-> 1, overlap |-> 0 ],
      [ document_id |-> <<"x", "_", "d">>,
        full_text |-> <<"c", " ", "b", " ", "a", " ", "b">>,
        chunk_size |-> 2, overlap |-> 1 ],
      [ document_id |-> <<"d">>, full_text |-> <<" ">>,
        chunk_size |-> 1, overlap |-> 0 ],
      [ document_id |-> <<"d">>, full_text |-> <<"a", " ", "b", " ", "c">>,
        chunk_size |-> 1, overlap |-> 1 ] }

\* request.document_id
DocumentIds == {request.document_id : request \in StoreRequests}
ChatMessages == {Q_ccb}

DocumentType == <<"t", "e", "x", "t">>
Backend ==
    <<"P", "i", "n", "e", "c", "o", "n", "e", " ", "E", "n", "h", "a", "n", "c", "e", "d", " ",
      "L", "e", "g", "a", "l">>

\* The metadata dict of the store endpoint, in insertion order, after
\* str(value)[:500].
EndpointMetadata(session_id, document_id, chunks, full_text, size, ovl, created_at) ==
    LET items == << <<"session_id", session_id>>,
                    <<"original_document_id", document_id>>,
                    <<"created_at", PyStr(created_at)>>,
                    <<"chunk_count", PyStr(Len(chunks))>>,
                    <<"text_length", PyStr(Len(full_text))>>,
                    <<"chunk_size_used", PyStr(size)>>,
                    <<"overlap_used", PyStr(ovl)>>,
                    <<"document_type", DocumentType>>,
                    <<"backend", Backend>> >>
    IN  [k \in 1..Len(items) |-> <<items[k][1], PySlice(items[k][2], 0, 500)>>]

Request(op, session_id, document_id, kind, top_k, status, r) ==
    [ op |-> op, session_id |-> session_id, document_id |-> document_id,
      kind |-> kind, top_k |-> top_k, status |-> status, calls |-> r.calls,
      all_chunks |-> r.all_chunks, result |-> r.result ]

NoRetrieval == [calls |-> <<>>, all_chunks |-> <<>>, result |-> <<>>]

\* The bodies POST /store_chunks receives: those above, and one with no
\* document_id.
EndpointRequests ==
    StoreRequests
      \cup { [ document_id |-> <<>>, full_text |-> <<"a", " ", "b", " ", "c">>,
               chunk_size |-> 1, overlap |-> 0 ] }

\* f"doc_{text_hash}_{int(datetime.now().timestamp())}"
GeneratedDocumentId(full_text, timestamp) ==
    <<"d", "o", "c", "_">> \o Md5(full_text) \o <<"_">> \o PyStr(timestamp)

\* POST /store_chunks: 400 for a blank text; a missing document_id is
\* generated from the text and the clock; then the call of
\* vector_service.chunk_legal_document raises AttributeError, which the
\* except clause turns into a 500.  Nothing reaches the index.
StoreChunks ==
    /\ last.op = "none"
    /\ now < MaxClock
    /\ \E session_id \in Sessions, request \in EndpointRequests :
          IF PySplit(request.full_text) = <<>>
          THEN /\ last' = Request("store", session_id, request.document_id, "",
                                  0, "400", NoRetrieval)
               /\ UNCHANGED now
          ELSE IF request.document_id = <<>>
          THEN /\ last' = Request("store", session_id,
                                  GeneratedDocumentId(request.full_text, now), "",
                                  0, "500", NoRetrieval)
               /\ now' = now + 1
          ELSE /\ last' = Request("store", session_id, request.document_id, "",
                                  0, "500", NoRetrieval)
               /\ UNCHANGED now
    /\ UNCHANGED <<index, chunkVars, embedVars, chatVars, storeVars>>

\* The coroutine of an upload suspended at 'await file.read()'.
UploadTask(session_id) ==
    [ pc |-> "reading", session_id |-> session_id, request |-> <<>>,
      has_history |-> FALSE, prompt |-> <<>> ]

\* The sessions that upload files.
UploadSessions == { <<"u">> }

\* The uploads suspended at 'await file.read()'.
ReadingUploads == { w \in Workers : tasks[w].pc = "reading" }

\* POST /upload-pdf up to 'await file.read()': 400 for a file name that
\* does not end in ".pdf"; otherwise the handler takes the session id and
\* suspends, and other requests run before it resumes.  One upload at a
\* time is followed: a suspended upload holds only its own session id and
\* file, which no other upload reads.
UploadPdfStart(w) ==
    /\ last.op = "none"
    /\ tasks[w].pc = "idle"
    /\ \A v \in Workers : v < w => tasks[v].pc # "idle"
    /\ ReadingUploads = {}
    /\ now < MaxClock
    /\ \E session_id \in UploadSessions, is_pdf \in BOOLEAN :
          IF ~is_pdf
          THEN /\ last' = Request("upload_pdf", session_id, <<>>, "", 0, "400",
                                  NoRetrieval)
               /\ UNCHANGED tasks
          ELSE /\ tasks' = [tasks EXCEPT ![w] = UploadTask(session_id)]
               /\ UNCHANGED last
    /\ UNCHANGED <<index, now, conversations, appended,
                   chunkVars, embedVars, storeVars>>

\* POST /upload-pdf from the file's content on: 500 when the extraction
\* raises, 400 for an extraction of quality below 2.0; then the document id
\* is made from the clock and the call of
\* vector_service.chunk_legal_document raises AttributeError, a 500.
\* Nothing reaches the index.
UploadPdfFinish(w) ==
    /\ last.op = "none"
    /\ tasks[w].pc = "reading"
    /\ \E extraction \in {"raise", "low_quality", "readable"} :
          IF extraction # "readable"
          THEN /\ last' = Request("upload_pdf", tasks[w].session_id, <<>>, "", 0,
                                  IF extraction = "raise" THEN "500" ELSE "400",
                                  NoRetrieval)
               /\ UNCHANGED now
          ELSE /\ last' = Request("upload_pdf", tasks[w].session_id, <<>>, "", 0,
                                  "500", NoRetrieval)
               /\ now' = now + 1
    /\ tasks' = [tasks EXCEPT ![w] = IdleTask]
    /\ UNCHANGED <<index, conversations, appended,
                   chunkVars, embedVars, storeVars>>

\* A call vector_service.store_document_chunks(f"{session_id}_{document_id}",
\* chunks, metadata) by a caller that chunks the text with chunk_text and
\* builds the metadata dict of the store endpoint: the clock is read for
\* the metadata, then by the service for every chunk.  When chunk_text
\* raises, the service is not called.
StoreDocumentChunks ==
    /\ last.op = "none"
    /\ now < MaxClock
    /\ \E session_id \in Sessions, request \in StoreRequests, failing_batch \in 0..1 :
        \E chunked \in { chunk_text(request.full_text,
                             request.chunk_size, request.overlap) } :
          IF chunked.status # "ok"
          THEN /\ last' = Request("store_call", session_id, request.document_id,
                                  "", 0, chunked.status, NoRetrieval)
               /\ UNCHANGED <<index, now>>
          ELSE \E stored \in { store_document_chunks(index,
                                  ScopedId(session_id, request.document_id),
                                  chunked.chunks,
                                  EndpointMetadata(session_id, request.document_id,
                                      chunked.chunks, request.full_text,
                                      request.chunk_size, request.overlap, now),
                                  now + 1, failing_batch) } :
                /\ index' = stored.index
                /\ now' = now + 1 + stored.reads
                /\ last' = Request("store_call", session_id, request.document_id,
                               "", 0, IF stored.success THEN "True" ELSE "False",
                               NoRetrieval)
    /\ UNCHANGED <<chunkVars, embedVars, chatVars, storeVars>>

\* The modes of the calls of one retrieval of n queries.
FaultPatterns(n) ==
    { [k \in 1..n |-> "ok"],
      [k \in 1..n |-> IF k = 1 THEN "filter_error" ELSE "filter_empty"],
      [k \in 1..n |-> IF k = 2 THEN "down" ELSE "ok"],
      [k \in 1..n |-> "down"] }

\* A call _retrieve_multi_query_chunks(f"{session_id}_{document_id}", ...)
\* with the queries of an analysis type.
RetrieveMultiQuery ==
    /\ last.op = "none"
    /\ \E session_id \in Sessions, document_id \in DocumentIds,
       analysis_type \in AnalysisTypes, top_k \in 1..MaxTopK :
        LET strategy == QueryStrategy(analysis_type)
        IN  \E modes \in FaultPatterns(1 + Len(strategy.secondary)) :
            \E r \in { retrieve_multi_query_chunks(index,
                           ScopedId(session_id, document_id),
                           strategy.primary, strategy.secondary,
                           top_k, modes) } :
                /\ last' = Request("multi_query", session_id, document_id,
                               analysis_type, top_k, "ok", r)
                /\ UNCHANGED <<index, now, chunkVars, embedVars, chatVars, storeVars>>

\* get_enhanced_comprehensive_chunks as the analysis endpoints call it: the
\* chunks returned, and the 404 of the endpoint when there is none.
AnalysisChunks ==
    /\ last.op = "none"
    /\ \E session_id \in Sessions, document_id \in DocumentIds,
       analysis_type \in AnalysisTypes :
        LET strategy == QueryStrategy(analysis_type)
        IN  \E modes \in FaultPatterns(1 + Len(strategy.secondary)) :
            \E r \in { retrieve_multi_query_chunks(index,
                           ScopedId(session_id, document_id),
                           strategy.primary, strategy.secondary,
                           AnalysisTopK, modes) } :
                    /\ last' = Request("analysis", session_id, document_id,
                                   analysis_type, AnalysisTopK,
                                   IF r.result = <<>> THEN "404" ELSE "ok", r)
                    /\ UNCHANGED <<index, now, chunkVars, embedVars, chatVars, storeVars>>

\* A call _retrieve_contextual_chunks(f"{session_id}_{document_id}", ...).
RetrieveContextual ==
    /\ last.op = "none"
    /\ \E session_id \in Sessions, document_id \in DocumentIds,
       user_message \in ChatMessages, question_type \in QuestionTypes,
       top_k \in 1..MaxTopK :
        \E modes \in FaultPatterns(Len(expand_query_for_retrieval(user_message, question_type))) :
        \E r \in { retrieve_contextual_chunks(index,
                       ScopedId(session_id, document_id),
                       user_message, question_type, top_k, modes) } :
            /\ last' = Request("contextual", session_id, document_id,
                           question_type, top_k, "ok", r)
            /\ UNCHANGED <<index, now, chunkVars, embedVars, chatVars, storeVars>>

\* The retrieval of chat_endpoint (use_rag with a document_id).
ChatRetrieval ==
    /\ last.op = "none"
    /\ \E session_id \in Sessions, document_id \in DocumentIds,
       user_message \in ChatMessages, question_type \in QuestionTypes :
        \E modes \in FaultPatterns(Len(expand_query_for_retrieval(user_message, question_type))) :
        \E r \in { retrieve_contextual_chunks(index,
                       ScopedId(session_id, document_id),
                       user_message, question_type, ChatTopK, modes) } :
            /\ last' = Request("chat", session_id, document_id,
                           question_type, ChatTopK, "ok", r)
            /\ UNCHANGED <<index, now, chunkVars, embedVars, chatVars, storeVars>>

\* GET /document/{document_id}/info
GetDocumentInfo ==
    /\ last.op = "none"
    /\ \E session_id \in Sessions, document_id \in DocumentIds,
          fault \in {"none", "empty", "raise"} :
       \E doc_info \in { get_document_info(index,
                             ScopedId(session_id, document_id), fault) } :
          last' = [ op |-> "info", session_id |-> session_id,
                    document_id |-> document_id,
                    status |-> IF doc_info.exists THEN "stored" ELSE "not_found",
                    exists |-> doc_info.exists,
                    chunk_count |-> doc_info.chunk_count,
                    created_at |-> doc_info.created_at,
                    index_total_vectors |-> doc_info.index_total_vectors,
                    optimal_chunks |-> doc_info.chunk_count >= 3 ]
    /\ UNCHANGED <<index, now, chunkVars, embedVars, chatVars, storeVars>>

\* DELETE /document/{document_id}
DeleteDocument ==
    /\ last.op = "none"
    /\ \E session_id \in Sessions, document_id \in DocumentIds,
          fault \in {"none", "empty", "raise"}, failing_delete \in 0..1 :
       \E deleted \in { delete_document(index,
                            ScopedId(session_id, document_id),
                            fault, failing_delete) } :
          /\ index' = deleted.index
          /\ last' = [ op |-> "delete", session_id |-> session_id,
                       document_id |-> document_id,
                       status |-> IF deleted.success THEN "deleted" ELSE "500",
                       before |-> index ]
    /\ UNCHANGED <<now, chunkVars, embedVars, chatVars, storeVars>>

\* The handler returns: the outcome goes to the caller.
Respond ==
    /\ last.op # "none"
    /\ last' = NoRequest
    /\ UNCHANGED <<index, now, chunkVars, embedVars, chatVars, storeVars>>

Init == IndexIdle /\ ChunkIdle /\ EmbedIdle /\ ChatIdle /\ StoreIdle

Next ==
    \/ StoreChunks
    \/ \E w \in Workers : UploadPdfStart(w)
    \/ \E w \in Workers : UploadPdfFinish(w)
    \/ StoreDocumentChunks
    \/ RetrieveMultiQuery
    \/ AnalysisChunks
    \/ RetrieveContextual
    \/ ChatRetrieval
    \/ GetDocumentInfo
    \/ DeleteDocument
    \/ Respond

Spec == Init /\ [][Next]_vars

IsRetrieval == last.op \in {"multi_query", "analysis", "contextual", "chat"}

\* The ids of a chunk list.
Ids(chunks) == {chunks[k].id : k \in 1..Len(chunks)}

\* The tag a merged chunk carries, and the tag of the k-th query issued.
TagOf(chunk) ==
    IF "query_type" \in DOMAIN chunk THEN chunk.query_type ELSE chunk.query_source
TagOfCall(k) ==
    IF last.op \in {"multi_query", "analysis"} THEN QueryTypeTag(k)
    ELSE QuerySourceTag(k)

\* The first query, in issue order, that returned id.
FirstCall(id) ==
    CHOOSE k \in 1..Len(last.calls) :
        /\ id \in Ids(last.calls[k].chunks)
        /\ \A j \in 1..(k - 1) : id \notin Ids(last.calls[j].chunks)

\* C5: in a multi-query retrieval (analysis or chatbot), the ids of the
\* result are pairwise different; every id returned by any of the queries is
\* in the merged list (before the cut to top_k) exactly once; and every
\* merged entry carries the tag of the first query, in issue order, that
\* returned its id.
C5_DedupFirstSeenTag ==
    IsRetrieval =>
        /\ \A i, j \in 1..Len(last.result) :
              i # j => last.result[i].id # last.result[j].id
        /\ \A k \in 1..Len(last.calls) :
              \A id \in Ids(last.calls[k].chunks) :
                  Cardinality({j \in 1..Len(last.all_chunks) :
                                   last.all_chunks[j].id = id}) = 1
        /\ \A j \in 1..Len(last.all_chunks) :
              /\ \E k \in 1..Len(last.calls) :
                    last.all_chunks[j].id \in Ids(last.calls[k].chunks)
              /\ TagOf(last.all_chunks[j]) = TagOfCall(FirstCall(last.all_chunks[j].id))
        /\ \A j \in 1..Len(last.result) : last.result[j] = last.all_chunks[j]

\* An analysis retrieval in which the primary and a secondary query returned
\* the same id, and a secondary query contributed an id of its own.
C5_Witness ==
    /\ last.op = "multi_query"
    /\ Len(last.calls) >= 2
    /\ \E k \in 2..Len(last.calls) :
          Ids(last.calls[1].chunks) \cap Ids(last.calls[k].chunks) # {}
    /\ \E j \in 1..Len(last.all_chunks) : TagOf(last.all_chunks[j]) # "primary"

\* The same in the chatbot's retrieval.
C5_ReachesChat ==
    /\ last.op = "contextual"
    /\ Len(last.calls) >= 2
    /\ Ids(last.calls[1].chunks) \cap Ids(last.calls[2].chunks) # {}
    /\ \E j \in 1..Len(last.all_chunks) : TagOf(last.all_chunks[j]) # "primary"

\* C6: the list a multi-query retrieval returns has at most top_k entries,
\* for every top_k >= 1, also when the queries found more than top_k
\* different ids.
C6_AtMostTopK ==
    IsRetrieval => (last.top_k >= 1 /\ Len(last.result) <= last.top_k)

\* A retrieval whose queries found more ids than top_k and that returned
\* top_k of them.
C6_Witness ==
    /\ last.op = "multi_query"
    /\ Len(last.all_chunks) > last.top_k
    /\ Len(last.result) = last.top_k

C6_ReachesChat ==
    /\ last.op = "contextual"
    /\ Len(last.all_chunks) > last.top_k
    /\ Len(last.result) = last.top_k

\* C7: the chunks get_enhanced_comprehensive_chunks hands to the analysis
\* endpoints are in ascending chunk_index order, whatever their scores.
C7_AnalysisChunksInDocumentOrder ==
    last.op = "analysis" =>
        \A i, j \in 1..Len(last.result) :
            i < j => last.result[i].chunk_index <= last.result[j].chunk_index

\* What the two queries of a retrieve_relevant_chunks call are answered.
FilteredAnswer(call) ==
    QueryAnswer(index, QueryEmbedding(call.query).embeddings[1],
                DocumentIdFilter(call.document_id), call.top_k,
                FilteredFault(call.mode))
UnfilteredAnswer(call) ==
    QueryAnswer(index, QueryEmbedding(call.query).embeddings[1],
                NoFilter, call.top_k, UnfilteredFault(call.mode))

\* The matches of the unfiltered answer that carry the call's document_id.
OwnMatches(call) ==
    {UnfilteredAnswer(call).matches[k] : k \in
        {k \in 1..Len(UnfilteredAnswer(call).matches) :
            UnfilteredAnswer(call).matches[k].metadata.document_id = call.document_id}}

FallbackCase(call) ==
    /\ FilteredAnswer(call).matches = <<>>
    /\ UnfilteredAnswer(call).ok
    /\ OwnMatches(call) # {}

\* C8: when the filtered query of a retrieve_relevant_chunks call gives no
\* match (an empty answer, or an error) and the unfiltered query with the same top_k gives at least one
\* match whose document_id is the target, the call returns exactly the
\* chunks of those matches (one chunk per match, none else), which is a
\* non-empty list.
C8_FallbackRecovers ==
    IsRetrieval =>
        \A k \in 1..Len(last.calls) :
            FallbackCase(last.calls[k]) =>
                /\ last.calls[k].chunks # <<>>
                /\ Len(last.calls[k].chunks) = Cardinality(OwnMatches(last.calls[k]))
                /\ {last.calls[k].chunks[j] : j \in 1..Len(last.calls[k].chunks)}
                     = {ChunkData(match) : match \in OwnMatches(last.calls[k])}

\* A call on the fallback path whose unfiltered answer also held a match of
\* another document, which the call left out.
C8_Witness ==
    /\ IsRetrieval
    /\ \E k \in 1..Len(last.calls) :
          /\ FallbackCase(last.calls[k])
          /\ last.calls[k].mode = "filter_empty"
          /\ \E j \in 1..Len(UnfilteredAnswer(last.calls[k]).matches) :
                UnfilteredAnswer(last.calls[k]).matches[j].metadata.document_id
                    # last.calls[k].document_id
          /\ last.calls[k].chunks # <<>>

\* The value stored under key among the caller's metadata of a record.
Extra(record, key) ==
    LET items == record.metadata.extra
    IN  items[CHOOSE k \in 1..Len(items) : items[k][1] = key][2]

\* The records of the index behind a chunk list.
RecordsOf(chunks) ==
    {index[k] : k \in {k \in 1..Len(index) : index[k].id \in Ids(chunks)}}

\* Both sessions have stored a document under the document id d.
StoredByBoth(d) ==
    \A s \in Sessions : \E k \in 1..Len(index) :
        /\ Extra(index[k], "session_id") = s
        /\ Extra(index[k], "original_document_id") = d

\* C9: two different sessions that use the same document id get different
\* scoped ids, and once both have stored a document under the same document
\* id, no retrieval a session issues returns a chunk that the other session
\* stored, whether the chunks come from the filtered query or from the
\* unfiltered fallback.
C9_SessionIsolation ==
    /\ \A s1, s2 \in Sessions, d \in DocumentIds :
          s1 # s2 => ScopedId(s1, d) # ScopedId(s2, d)
    /\ (IsRetrieval /\ \E d \in DocumentIds : StoredByBoth(d)) =>
          \A k \in 1..Len(last.calls) :
              \A record \in RecordsOf(last.calls[k].chunks) \cup RecordsOf(last.result) :
                  Extra(record, "session_id") = last.session_id

\* The returned chunks another session stored, when there are any, were
\* stored under a document id other than the one of the request.
ForeignChunksOnlyOfOtherDocumentId ==
    IsRetrieval =>
        \A k \in 1..Len(last.calls) :
            \A record \in RecordsOf(last.calls[k].chunks) \cup RecordsOf(last.result) :
                Extra(record, "session_id") # last.session_id
                    => Extra(record, "original_document_id") # last.document_id

\* C10: records stored by different sessions never carry the same scoped
\* document id.
C10_ScopedIdNotSharedAcrossSessions ==
    \A i, j \in 1..Len(index) :
        Extra(index[i], "session_id") # Extra(index[j], "session_id")
            => index[i].metadata.document_id # index[j].metadata.document_id

\* The orders in which the results of n secondary queries can be merged.
Perms(n) == {p \in [1..n -> 1..n] : \A i, j \in 1..n : i # j => p[i] # p[j]}

\* The merge of the per-query results of the last retrieval with the
\* secondary results taken in the order p.
MergedInOrder(p) ==
    Merged(<<last.calls[1]>> \o [k \in 1..Len(p) |-> last.calls[1 + p[k]]],
           IF last.op \in {"multi_query", "analysis"} THEN "query_type"
           ELSE "query_source",
           [k \in 1..Len(last.calls) |-> TagOfCall(k)], last.top_k)

\* The ids and scores of a chunk list, in its order.
IdsAndScores(chunks) ==
    [k \in 1..Len(chunks) |-> <<chunks[k].id, chunks[k].score>>] \o <<>>

\* C14 as stated: for the per-query results of a retrieval, the sequence
\* returned (ids, scores, order) is the same for every order in which the
\* secondary results are merged.
C14_MergeOrderIndependent ==
    (IsRetrieval /\ last.calls # <<>>) =>
        \A p \in Perms(Len(last.calls) - 1) :
            IdsAndScores(MergedInOrder(p).result) = IdsAndScores(last.result)

\* Every id is returned with one score by all the queries that return it,
\* and no two ids have the same score.
ScoresSettled ==
    \A i, j \in 1..Len(last.calls) :
        \A a \in 1..Len(last.calls[i].chunks), b \in 1..Len(last.calls[j].chunks) :
            (last.calls[i].chunks[a].id = last.calls[j].chunks[b].id)
                <=> (last.calls[i].chunks[a].score = last.calls[j].chunks[b].score)

\* C14, amended: for the per-query results of a retrieval, the set of ids
\* collected before the cut to top_k is the same for every order in which
\* the secondary results are merged; and the sequence returned is the same
\* for every order when each id has one score in all the results and
\* different ids have different scores.
C14_MergeOrderIndependentIds ==
    (IsRetrieval /\ last.calls # <<>>) =>
        \A p \in Perms(Len(last.calls) - 1) :
            /\ Ids(MergedInOrder(p).all_chunks) = Ids(last.all_chunks)
            /\ ScoresSettled =>
                  IdsAndScores(MergedInOrder(p).result) = IdsAndScores(last.result)

\* A retrieval whose secondary queries found ids the primary did not, and
\* whose returned sequence changes with the merge order.
C14_Witness ==
    /\ IsRetrieval /\ Len(last.calls) >= 3
    /\ \E p \in Perms(Len(last.calls) - 1) :
          /\ IdsAndScores(MergedInOrder(p).result) # IdsAndScores(last.result)
          /\ Ids(MergedInOrder(p).all_chunks) = Ids(last.all_chunks)
    /\ Ids(last.all_chunks) # Ids(last.calls[1].chunks)

\* A retrieval with settled scores in which two secondary queries each
\* contributed an id.
C14_ReachesSettled ==
    /\ IsRetrieval /\ Len(last.calls) >= 3
    /\ ScoresSettled
    /\ \E i, j \in 2..Len(last.calls) :
          /\ i # j
          /\ Ids(last.calls[i].chunks) \ Ids(last.calls[1].chunks) # {}
          /\ Ids(last.calls[j].chunks) \ (Ids(last.calls[1].chunks) \cup Ids(last.calls[i].chunks)) # {}

\* C15: an analysis request whose primary query errors against the vector
\* store (the filtered query and the fallback query both raise) ends as a
\* server error, never as the 404 of an empty result.
C15_TotalFailureIsServerError ==
    (last.op = "analysis" /\ last.calls[1].mode = "down") =>
        (last.status = "500" /\ last.status # "404")

\* The secondary queries of the last retrieval that failed, and the ids the
\* other queries returned.
FailedSecondaries == {k \in 2..Len(last.calls) : last.calls[k].mode = "down"}
Contributed ==
    UNION {Ids(last.calls[k].chunks) : k \in (1..Len(last.calls)) \ FailedSecondaries}

\* C17: a multi-query retrieval in which a secondary query failed completes
\* without error; the list it merged holds exactly the ids the other
\* queries returned, and the list it returns holds top_k of them, or all of
\* them when they are fewer.
C17_SecondaryFailuresSkipped ==
    (IsRetrieval /\ FailedSecondaries # {}) =>
        /\ last.status # "500"
        /\ Ids(last.all_chunks) = Contributed
        /\ Len(last.all_chunks) = Cardinality(Contributed)
        /\ Ids(last.result) \subseteq Contributed
        /\ Len(last.result) = Min(last.top_k, Cardinality(Contributed))

\* The first secondary query failed, and a later one contributed an id of
\* its own, which is in the result.
C17_Witness ==
    /\ IsRetrieval
    /\ 2 \in FailedSecondaries
    /\ \E j \in 3..Len(last.calls) :
          (Ids(last.calls[j].chunks) \ Ids(last.calls[1].chunks))
              \cap Ids(last.result) # {}

\* C22: a record that is in the index stays as it is, vector and metadata,
\* through every later store, retrieval and info operation, storing the
\* same document under the same scoped id again included; it leaves the
\* index only through delete_document of its document_id.
C22_StoredRecordsImmutable ==
    [][ \A k \in 1..Len(index) :
           IF \E j \in 1..Len(index') : index'[j].id = index[k].id
           THEN \E j \in 1..Len(index') : index'[j] = index[k]
           ELSE /\ last'.op = "delete"
                /\ index[k].metadata.document_id =
                       ScopedId(last'.session_id, last'.document_id) ]_vars

\* C23: the sequence a multi-query retrieval returns is sorted by score,
\* best first, and every chunk it keeps scores at least as high as every
\* deduplicated chunk dropped at the top_k cut.
C23_ScoreDeterminesInclusion ==
    IsRetrieval =>
        /\ \A i, j \in 1..Len(last.result) :
              i < j => last.result[i].score >= last.result[j].score
        /\ Ids(last.result) \subseteq Ids(last.all_chunks)
        /\ \A i \in 1..Len(last.result), k \in 1..Len(last.all_chunks) :
              last.all_chunks[k].id \notin Ids(last.result)
                  => last.result[i].score >= last.all_chunks[k].score

\* The cut dropped a chunk that scores lower than a kept one, and the best
\* chunk came from a secondary query, after the chunks of the primary.
C23_Witness ==
    /\ IsRetrieval
    /\ last.calls[1].chunks # <<>>
    /\ last.result # <<>>
    /\ last.result[1].id \notin Ids(last.calls[1].chunks)
    /\ \E k \in 1..Len(last.all_chunks) :
          /\ last.all_chunks[k].id \notin Ids(last.result)
          /\ last.all_chunks[k].score < last.result[Len(last.result)].score

\* C24: every secondary query of a retrieval, of the analysis endpoints and
\* of the chatbot alike, is issued with the cap max(1, top_k // 2), which
\* is never more than the cap of the primary query.
C24_SecondaryCap ==
    IsRetrieval =>
        \A k \in 2..Len(last.calls) :
            /\ last.calls[k].top_k = Max(1, last.top_k \div 2)
            /\ last.calls[k].top_k <= last.calls[1].top_k

\* The records a step wrote: those of the index that were not in it before
\* (every call stamps its records with its own created_at).
WrittenRecords ==
    {index'[k] : k \in 1..Len(index')} \ {index[k] : k \in 1..Len(index)}

\* The core fields of a record are those of chunk i of the request, stored
\* under the scoped document id with the clock reading created_at.
CoreFieldsFrom(record, document_id, chunk, created_at) ==
    /\ record.id = document_id \o <<"_">> \o chunk.id
    /\ record.metadata.document_id = document_id
    /\ record.metadata.chunk_index = chunk.chunk_index
    /\ record.metadata.text = PySlice(chunk.text, 0, 1000)
    /\ record.metadata.word_count = chunk.word_count
    /\ record.metadata.start_word = chunk.start_word
    /\ record.metadata.end_word = chunk.end_word
    /\ record.metadata.created_at = created_at

\* C29: every record written by store_document_chunks(document_id, chunks,
\* metadata) carries the document_id of the call, the chunk_index, text,
\* word_count, start_word and end_word of its chunk and the created_at the
\* call read from the clock for that chunk, and none of the caller's items
\* was written under one of those keys, although the caller's metadata
\* holds a created_at of its own.
C29_CoreFieldsNotOverridden ==
    [][ last'.op = "store_call" =>
          \A record \in WrittenRecords :
             /\ \E request \in StoreRequests :
                   /\ request.document_id = last'.document_id
                   /\ \E chunks \in { chunk_text(request.full_text,
                                          request.chunk_size, request.overlap).chunks } :
                         \E i \in 1..Len(chunks) :
                            CoreFieldsFrom(record,
                                ScopedId(last'.session_id, last'.document_id),
                                chunks[i], now + i)
             /\ \A k \in 1..Len(record.metadata.extra) :
                   record.metadata.extra[k][1] \notin CoreKeys
             /\ Extra(record, "session_id") = last'.session_id
       ]_vars

\* The caller's metadata holds an item under the key.
HasKey(metadata, key) == \E k \in 1..Len(metadata) : metadata[k][1] = key

\* A call of store_document_chunks wrote a record, and the metadata passed
\* to it held a created_at of its own, which is not the one the record
\* carries.
C29_Witness ==
    /\ last.op = "store_call"
    /\ last.status = "True"
    /\ \E k \in 1..Len(index) :
          /\ index[k].metadata.document_id = ScopedId(last.session_id, last.document_id)
          /\ index[k].metadata.created_at = now - 1
          /\ Extra(index[k], "original_document_id") = last.document_id
          /\ ~HasKey(index[k].metadata.extra, "created_at")
    /\ \E request \in StoreRequests :
          /\ request.document_id = last.document_id
          /\ HasKey(EndpointMetadata(last.session_id, request.document_id, <<>>,
                        request.full_text, request.chunk_size, request.overlap,
                        now - 1), "created_at")

(***************************************************************************)
(* The conversation store and the chat endpoint.  The handlers are         *)
(* coroutines of one event loop: a step of the model is the code a handler *)
(* runs between two suspensions.  chat_endpoint suspends at the call of    *)
(* the language model (the Pinecone client is synchronous, so the          *)
(* retrieval runs in the step that reads the history); the history,        *)
(* summary and clear handlers never suspend.  Session "u" has stored       *)
(* document "d" and chats; both sessions read and clear.                   *)
(***************************************************************************)
MaxTurns == 13
MaxVariedTurns == 1
MaxLastN == 1

Chatter == <<"u">>

\* The index after a call of store_document_chunks for document "d" of the
\* chatter, made before the clock read 1: the metadata was stamped at -3,
\* the chunks at -2, -1 and 0.
StoredIndex ==
    LET chunks == chunk_text(<<"a", " ", "b", " ", "c">>, 1, 0).chunks
    IN  store_document_chunks(<<>>, ScopedId(Chatter, <<"d">>), chunks,
            EndpointMetadata(Chatter, <<"d">>, chunks, <<"a", " ", "b", " ", "c">>,
                             1, 0, -3),
            -2, 0).index

\* The bodies of the chat requests, with the type _detect_question_type
\* gives the message.
ChatRequests ==
    { [ message |-> Q_ccb, document_id |-> <<"d">>, use_rag |-> TRUE,
        question_type |-> "risk_analysis" ],
      [ message |-> Q_ccb, document_id |-> <<"x", "_", "d">>, use_rag |-> TRUE,
        question_type |-> "yes_no" ],
      [ message |-> Q_ccb, document_id |-> None, use_rag |-> TRUE,
        question_type |-> "general" ],
      [ message |-> Q_ccb, document_id |-> <<"d">>, use_rag |-> FALSE,
        question_type |-> "general" ] }

\* What the two calls of the language model do: both answer, the first
\* fails, or both fail (no API key is configured).
LlmOutcomes ==
    { <<Completed(Answer), Completed(Answer)>>,
      <<Failed(LlmNotConfigured), Completed(Answer)>>,
      <<Failed(LlmNotConfigured), Failed(KeyNotConfigured)>> }

\* The first MaxVariedTurns turns of the process take any request, any
\* behaviour of the language model and any behaviour of the index; the
\* turns after them, which fill the log to its cap and beyond, are the
\* plain one: a question on document "d", answered.
Varied == now < 1 + 2 * MaxVariedTurns
PlainRequest ==
    [ message |-> Q_ccb, document_id |-> <<"d">>, use_rag |-> TRUE,
      question_type |-> "risk_analysis" ]

\* The index answers every query of a retrieval, or it is down for all.
ChatFaults == { [k \in 1..3 |-> "ok"], [k \in 1..3 |-> "down"] }

\* The last_n values of the get_history calls: the small ones, and that of
\* GET /conversation/history (50).
HistoryWindows == 0..MaxLastN \cup {50}

\* chat_endpoint up to the call of the language model: question type,
\* history, retrieval, prompt.
ChatStart(w) ==
    /\ last.op = "none"
    /\ tasks[w].pc = "idle"
    /\ \A v \in Workers : v < w => tasks[v].pc # "idle"
    /\ now < 1 + 2 * MaxTurns
    /\ \E request \in (IF Varied THEN ChatRequests ELSE {PlainRequest}) :
        \E modes \in (IF Varied THEN ChatFaults ELSE {[k \in 1..3 |-> "ok"]}) :
        \E has_history \in { get_history(conversations, Chatter, 10) # <<>> } :
        \E r \in { IF request.use_rag /\ request.document_id # None
                   THEN retrieve_contextual_chunks(index,
                            ScopedId(Chatter, request.document_id),
                            request.message, request.question_type,
                            ChatTopK, modes)
                   ELSE NoRetrieval } :
            tasks' = [tasks EXCEPT ![w] =
                        [ pc |-> "generating", session_id |-> Chatter,
                          request |-> request, has_history |-> has_history,
                          prompt |-> Prompt(request, r, has_history) ]]
    /\ UNCHANGED <<conversations, appended, indexVars, chunkVars, embedVars, storeVars>>

\* chat_endpoint from the answer of the language model on: final answer,
\* quality check, the two messages of the turn, the response.
ChatFinish(w) ==
    /\ last.op = "none"
    /\ tasks[w].pc = "generating"
    /\ now < 1 + 2 * MaxTurns
    /\ \E llm \in (IF Varied THEN LlmOutcomes
                   ELSE {<<Completed(Answer), Completed(Answer)>>}) :
        \E task \in { tasks[w] } :
        \E final_answer \in
            { verify_response_quality(FinalAnswer(call_groq(llm[1], llm[2])),
                  task.prompt.relevant_chunks, task.request.message) } :
            /\ conversations' = StoreTurn(conversations, task.session_id,
                                    task.request.message, final_answer,
                                    task.request.document_id, now)
            /\ appended' =
                  (task.session_id :>
                      (LogOf(appended, task.session_id)
                       \o << Message("user", task.request.message, now,
                                     task.request.document_id),
                             Message("assistant", final_answer, now + 1,
                                     task.request.document_id) >>))
                  @@ appended
            /\ now' = now + 2
            /\ last' = [ op |-> "chat_endpoint", session_id |-> task.session_id,
                         status |-> "200", llm |-> llm,
                         request |-> task.request,
                         response |-> final_answer,
                         chunks_retrieved |-> Len(task.prompt.relevant_chunks),
                         used_rag |-> HasDocumentContext(task.prompt.document_context,
                                                         task.prompt.relevant_chunks),
                         system_prompt |-> task.prompt.system_prompt,
                         prompt_parts |-> task.prompt.prompt_parts,
                         has_history |-> task.has_history ]
            /\ tasks' = [tasks EXCEPT ![w] = IdleTask]
    /\ UNCHANGED <<index, chunkVars, embedVars, storeVars>>

\* conversation_store.get_history(session_id, last_n)
GetHistory ==
    /\ last.op = "none"
    /\ \E session_id \in Sessions, last_n \in HistoryWindows :
          last' = [ op |-> "get_history", session_id |-> session_id,
                    status |-> "200", last_n |-> last_n,
                    messages |-> get_history(conversations, session_id, last_n) ]
    /\ UNCHANGED <<index, now, chatVars, chunkVars, embedVars, storeVars>>

\* GET /conversation/summary
GetSummary ==
    /\ last.op = "none"
    /\ \E session_id \in Sessions :
          last' = [ op |-> "summary", session_id |-> session_id,
                    status |-> "200",
                    summary |-> SummaryResponse(
                                    get_summary(conversations, session_id),
                                    session_id) ]
    /\ UNCHANGED <<index, now, chatVars, chunkVars, embedVars, storeVars>>

\* DELETE /conversation/clear
ClearConversation ==
    /\ last.op = "none"
    /\ \E session_id \in Sessions :
          /\ conversations' = clear_history(conversations, session_id)
          /\ appended' = [s \in DOMAIN appended \ {session_id} |-> appended[s]]
          /\ last' = [ op |-> "clear", session_id |-> session_id,
                       status |-> "200" ]
    /\ UNCHANGED <<index, now, tasks, chunkVars, embedVars, storeVars>>

\* The handler returns: the outcome goes to the caller.
ChatRespond ==
    /\ last.op # "none"
    /\ last' = NoRequest
    /\ UNCHANGED <<index, now, chatVars, chunkVars, embedVars, storeVars>>

ChatInit ==
    /\ index = StoredIndex /\ now = 1 /\ last = NoRequest
    /\ ChatIdle /\ ChunkIdle /\ EmbedIdle /\ StoreIdle

ChatNext ==
    \/ \E w \in Workers : ChatStart(w)
    \/ \E w \in Workers : ChatFinish(w)
    \/ GetHistory
    \/ GetSummary
    \/ ClearConversation
    \/ ChatRespond

SpecChat == ChatInit /\ [][ChatNext]_vars

\* The most recent n elements of a sequence, oldest first.
MostRecent(s, n) == [k \in 1..Min(n, Len(s)) |-> s[Len(s) - Min(n, Len(s)) + k]]

\* C11: the sessions with a log are those that were appended to since their
\* creation or last clear, and each log has at most
\* max_history_per_session messages and is the most recent
\* min(n, max_history_per_session) of the n messages appended, in the order
\* they were appended, whatever their roles and contents.
C11_FifoEviction ==
    /\ DOMAIN conversations = DOMAIN appended
    /\ \A s \in DOMAIN conversations :
          /\ Len(conversations[s]) <= max_history_per_session
          /\ Len(conversations[s]) = Min(Len(appended[s]), max_history_per_session)
          /\ conversations[s] \o <<>>
               = MostRecent(appended[s], max_history_per_session) \o <<>>

\* max_history_per_session + 5 messages or more were appended to a session,
\* whose log holds max_history_per_session messages, of both roles.
C11_Witness ==
    \E s \in DOMAIN conversations :
        /\ Len(appended[s]) >= max_history_per_session + 5
        /\ Len(conversations[s]) = max_history_per_session
        /\ conversations[s][1].timestamp
             = appended[s][Len(appended[s]) - max_history_per_session + 1].timestamp
        /\ {conversations[s][k].role : k \in 1..Len(conversations[s])}
             = {"user", "assistant"}

\* C12: a call get_history(session_id, last_n) with last_n >= 0 returns at
\* most last_n messages, and they are the most recent ones of the session's
\* log, oldest first.
C12_HistoryWindow ==
    last.op = "get_history" =>
        /\ last.last_n >= 0
        /\ Len(last.messages) <= last.last_n
        /\ last.messages \o <<>>
             = MostRecent(LogOf(conversations, last.session_id), last.last_n) \o <<>>

\* C13: at every point where a request can run, every log holds at most
\* max_history_per_session messages and exactly the appends made so far
\* (each append with its eviction, or not at all); what a history or summary
\* request observed is such a log, also while chat requests of the same
\* session are suspended at the language model.
C13_AppendAtomicity ==
    /\ \A s \in DOMAIN conversations :
          /\ Len(conversations[s]) <= max_history_per_session
          /\ Len(conversations[s])
               = Min(Len(LogOf(appended, s)), max_history_per_session)
          /\ \A k \in 1..Len(conversations[s]) :
                conversations[s][k] =
                    appended[s][Len(appended[s]) - Len(conversations[s]) + k]
    /\ last.op = "get_history" =>
          /\ Len(last.messages) <= max_history_per_session
          /\ \E n \in 0..max_history_per_session :
                last.messages \o <<>>
                    = MostRecent(LogOf(appended, last.session_id), n) \o <<>>
    /\ last.op = "summary" =>
          last.summary.message_count
              = Min(Len(LogOf(appended, last.session_id)), max_history_per_session)

\* A history request observed the full log of a session, evictions made,
\* while two chat requests of that session were suspended.
C13_Witness ==
    /\ last.op = "get_history"
    /\ Len(last.messages) = max_history_per_session
    /\ Len(LogOf(appended, last.session_id)) > max_history_per_session
    /\ \A w \in Workers :
          tasks[w].pc = "generating" /\ tasks[w].session_id = last.session_id

\* C16: a chat request whose language-model call failed (the LangChain call
\* and the direct call both fail) ends in a failure reported to the caller,
\* and appends no assistant message for the turn.
C16_GenerationFailurePropagates ==
    (last.op = "chat_endpoint" /\ ~last.llm[1].ok /\ ~last.llm[2].ok) =>
        /\ last.status # "200"
        /\ LET log == LogOf(conversations, last.session_id)
           IN  ~ /\ log # <<>>
                 /\ log[Len(log)].role = "assistant"
                 /\ log[Len(log)].timestamp = now - 1

\* C18: a history or summary request for a session that has no log is
\* answered without error with the empty sequence, or with message_count 0
\* and exists false, and leaves the store as it was: no log is created.
C18_UnknownSession ==
    [][ (last'.op \in {"get_history", "summary"}
           /\ last'.session_id \notin DOMAIN conversations) =>
            /\ last'.status = "200"
            /\ last'.op = "get_history" => last'.messages = <<>>
            /\ last'.op = "summary" =>
                  /\ last'.summary.message_count = 0
                  /\ last'.summary.exists = FALSE
                  /\ last'.summary.documents_discussed = {}
            /\ conversations' = conversations
            /\ last'.session_id \notin DOMAIN conversations' ]_vars

\* A summary of a session that never chatted, asked while another session
\* has a log.
C18_Witness ==
    /\ last.op = "summary"
    /\ last.session_id \notin DOMAIN conversations
    /\ DOMAIN conversations # {}
    /\ last.summary.message_count = 0
    /\ ~last.summary.exists

\* The same for a history request.
C18_ReachesHistory ==
    /\ last.op = "get_history"
    /\ last.session_id \notin DOMAIN conversations
    /\ DOMAIN conversations # {}
    /\ last.messages = <<>>

\* The branch the prompt of a chat request took.
DocumentBranch ==
    /\ \E k \in 1..Len(last.system_prompt) :
          last.system_prompt[k] = "DOCUMENT CONTEXT IS PROVIDED"
    /\ \A k \in 1..Len(last.system_prompt) :
          last.system_prompt[k] # "NO DOCUMENT CONTEXT AVAILABLE"
    /\ last.prompt_parts[Len(last.prompt_parts)] = "ANSWERING INSTRUCTIONS: document"
    /\ last.used_rag
GeneralBranch ==
    /\ \E k \in 1..Len(last.system_prompt) :
          last.system_prompt[k] = "NO DOCUMENT CONTEXT AVAILABLE"
    /\ \A k \in 1..Len(last.system_prompt) :
          last.system_prompt[k] # "DOCUMENT CONTEXT IS PROVIDED"
    /\ last.prompt_parts[Len(last.prompt_parts)] = "ANSWERING INSTRUCTIONS: general"
    /\ ~last.used_rag

\* C19: the prompt of a chat request takes the "document context is
\* provided" branch, and the response says used_rag, exactly when at least
\* one chunk was retrieved; with no chunk, also after a retrieval that
\* failed, it takes the "no document context" branch.
C19_BranchFollowsChunks ==
    last.op = "chat_endpoint" =>
        /\ last.chunks_retrieved > 0 => DocumentBranch
        /\ last.chunks_retrieved = 0 => GeneralBranch

\* A chat request on the stored document whose retrieval failed: no chunk,
\* a context text that is not empty, and the general branch.
C19_Witness ==
    /\ last.op = "chat_endpoint"
    /\ last.request.use_rag
    /\ last.request.document_id = <<"d">>
    /\ last.chunks_retrieved = 0
    /\ GeneralBranch

\* A chat request that retrieved chunks and took the document branch.
C19_ReachesDocumentBranch ==
    /\ last.op = "chat_endpoint"
    /\ last.chunks_retrieved > 0
    /\ DocumentBranch

\* The turns of a log: user and assistant messages alternate from a user
\* message on, and the last message is of the assistant.
PairedTurns(log) ==
    /\ Len(log) % 2 = 0
    /\ \A k \in 1..Len(log) :
          log[k].role = (IF k % 2 = 1 THEN "user" ELSE "assistant")

\* What a step did to a log: nothing, cleared it, or appended the two
\* messages of the request that finished, the user message then the
\* assistant's, adjacent, after the messages the cap let stay.
AppendedTurn(old, new) ==
    /\ Len(new) = Min(Len(old) + 2, max_history_per_session)
    /\ new[Len(new) - 1].role = "user"
    /\ new[Len(new) - 1].content = last'.request.message
    /\ new[Len(new)].role = "assistant"
    /\ new[Len(new)].content = last'.response
    /\ SubSeq(new, 1, Len(new) - 2) \o <<>> = MostRecent(old, Len(new) - 2) \o <<>>

\* C28: under every interleaving of chat and clear requests of a session,
\* at every point where another request can run each log of the chat
\* endpoint's store has even length and alternates user, assistant from a
\* user message on; and a step of a chat request appends both of its
\* messages, user then assistant, adjacent, or none.
C28_TurnPairing ==
    [][ \A s \in Sessions :
           /\ PairedTurns(LogOf(conversations, s))
           /\ PairedTurns(LogOf(conversations', s))
           /\ \/ LogOf(conversations', s) = LogOf(conversations, s)
              \/ last'.op = "clear" /\ last'.session_id = s
                    /\ LogOf(conversations', s) = <<>>
              \/ last'.op = "chat_endpoint" /\ last'.session_id = s
                    /\ AppendedTurn(LogOf(conversations, s), LogOf(conversations', s))
      ]_vars

\* A chat request stored its turn while another chat request of the session
\* was suspended at the language model, after a clear had emptied a log that
\* earlier turns had filled.
C28_Witness ==
    /\ last.op = "chat_endpoint"
    /\ now >= 5
    /\ Len(LogOf(conversations, last.session_id)) = 2
    /\ PairedTurns(conversations[last.session_id])
    /\ \E w \in Workers :
          tasks[w].pc = "generating" /\ tasks[w].session_id = last.session_id

\* A chat request stored its turn in a full log, the oldest turn evicted.
C28_ReachesEviction ==
    /\ last.op = "chat_endpoint"
    /\ Len(LogOf(appended, last.session_id)) > max_history_per_session
    /\ Len(conversations[last.session_id]) = max_history_per_session
    /\ PairedTurns(conversations[last.session_id])

(***************************************************************************)
(* One call of store_document_chunks at a time, followed call by call to   *)
(* the index: the vectors are built, one batch is upserted per step, and   *)
(* the verification query follows the last batch.  The documents are long  *)
(* enough for several batches, and any one upsert may raise.               *)
(***************************************************************************)
MaxBatches == 2

\* len(chunks) of the documents stored: none, one, a full batch,
\* MaxBatches batches and one more.
ChunkCounts == {0, 1, batch_size, MaxBatches * batch_size + 1}

\* The calls: document "d" in every length, document "x_d" with one chunk.
BatchStoreCalls ==
    {[document_id |-> <<"d">>, n |-> n] : n \in ChunkCounts}
      \cup {[document_id |-> <<"x", "_", "d">>, n |-> 1]}

\* n chunks of one word, as chunk_text(text, 1, 0) makes of a text of n
\* words "a".
OneWordChunks(n) ==
    [ k \in 1..n |->
        [ id          |-> Md5(<<"a">> \o PyStr(k - 1)),
          text        |-> <<"a">>,
          chunk_index |-> k - 1,
          word_count  |-> 1,
          start_word  |-> k - 1,
          end_word    |-> k ] ]

\* total_batches
TotalBatches(n) == (n + batch_size - 1) \div batch_size

\* The call starts: the embeddings and the vectors are made; no chunk, or
\* an exception on the way, and it returns False at once.
BatchStoreStart ==
    /\ last.op = "none"
    /\ storing.pc = "idle"
    /\ now < MaxClock
    /\ \E call \in BatchStoreCalls :
       \E failing_batch \in 0..TotalBatches(call.n) :
       \E chunks \in { OneWordChunks(call.n) }, document_id \in { call.document_id } :
       \E emb \in { create_embeddings(
                       EncodeBatch([i \in 1..Len(chunks) |-> chunks[i].text])) } :
       \E raised \in { \/ chunks = <<>>
                       \/ emb.status # "ok"
                       \/ \E i \in 1..Len(chunks) :
                             Len(emb.embeddings[i]) # target_dimension } :
          /\ storing' =
             [ IdleStore EXCEPT
                 !.pc = IF raised THEN "return" ELSE "upsert",
                 !.document_id = ScopedId(Chatter, document_id),
                 !.expected_chunks = Len(chunks),
                 !.vectors = IF raised THEN <<>>
                             ELSE VectorsToUpsert(ScopedId(Chatter, document_id),
                                      chunks, <<>>, emb.embeddings, now),
                 !.failing_batch = failing_batch,
                 !.created_at = now ]
          /\ now' = now + (IF chunks = <<>> \/ emb.status # "ok" THEN 0
                           ELSE ClockReads(chunks, emb.embeddings))
    /\ UNCHANGED <<index, last, chunkVars, embedVars, chatVars>>

\* A plausible slip: the exception of an upsert is caught inside the loop,
\* which goes on to the next batch.
UpsertBatch_ContinueAfterFailure ==
    /\ storing.pc = "upsert"
    /\ storing.batch_idx < Len(storing.vectors)
    /\ IF CurrentBatch(storing.batch_idx) = storing.failing_batch
       THEN /\ storing' = [storing EXCEPT !.batch_idx = @ + batch_size]
            /\ UNCHANGED index
       ELSE /\ index' = Upsert(index, Batch(storing.vectors, storing.batch_idx))
            /\ storing' = [storing EXCEPT
                             !.batch_idx = @ + batch_size,
                             !.upserted = Append(@, CurrentBatch(storing.batch_idx))]
    /\ UNCHANGED <<now, last, chunkVars, embedVars, chatVars>>

\* One turn of the batch loop: self.index.upsert(vectors=batch), which adds
\* the batch to the index or raises; the exception ends the call.
UpsertBatch ==
    /\ storing.pc = "upsert"
    /\ storing.batch_idx < Len(storing.vectors)
    /\ IF CurrentBatch(storing.batch_idx) = storing.failing_batch
       THEN /\ storing' = [storing EXCEPT !.pc = "return"]
            /\ UNCHANGED index
       ELSE /\ index' = Upsert(index, Batch(storing.vectors, storing.batch_idx))
            /\ storing' = [storing EXCEPT
                             !.batch_idx = @ + batch_size,
                             !.upserted = Append(@, CurrentBatch(storing.batch_idx))]
    /\ UNCHANGED <<now, last, chunkVars, embedVars, chatVars>>

\* The loop is over: time.sleep(3), then _verify_stored_document, whose
\* query may be answered in full, with no match yet, or raise (the
\* exception is caught there); the call returns True.
VerifyStoredDocument ==
    /\ storing.pc = "upsert"
    /\ storing.batch_idx >= Len(storing.vectors)
    /\ \E fault \in {"none", "empty", "raise"} :
       \E answer \in { QueryAnswer(index, Zeros(target_dimension),
                           DocumentIdFilter(storing.document_id),
                           storing.expected_chunks + 5, fault) } :
          storing' = [storing EXCEPT
                        !.pc = "return",
                        !.verified = TRUE,
                        !.found_chunks = IF answer.ok THEN <<Len(answer.matches)>>
                                         ELSE None,
                        !.success = TRUE]
    /\ UNCHANGED <<index, now, last, chunkVars, embedVars, chatVars>>

\* The call returns its value to the caller.
StoreReturn ==
    /\ storing.pc = "return"
    /\ last' = [ op |-> "store_document_chunks",
                 document_id |-> storing.document_id,
                 expected_chunks |-> storing.expected_chunks,
                 failing_batch |-> storing.failing_batch,
                 created_at |-> storing.created_at,
                 upserted |-> storing.upserted,
                 verified |-> storing.verified,
                 found_chunks |-> storing.found_chunks,
                 success |-> storing.success ]
    /\ storing' = IdleStore
    /\ UNCHANGED <<index, now, chunkVars, embedVars, chatVars>>

BatchInit == IndexIdle /\ StoreIdle /\ ChunkIdle /\ EmbedIdle /\ ChatIdle

BatchNext ==
    \/ BatchStoreStart
    \/ UpsertBatch
    \/ VerifyStoredDocument
    \/ StoreReturn
    \/ Respond

SpecBatch == BatchInit /\ [][BatchNext]_vars

\* The records in the index that the last call of store_document_chunks
\* wrote.
RecordsOfLastCall ==
    {k \in 1..Len(index) :
        /\ index[k].metadata.document_id = last.document_id
        /\ index[k].metadata.created_at
              \in last.created_at..(last.created_at + last.expected_chunks - 1)}

\* C20: after store_document_chunks returned False because the upsert of a
\* batch raised, the index holds none of the records of that call.
C20_FailedUpsertLeavesNothing ==
    (last.op = "store_document_chunks" /\ ~last.success /\ last.failing_batch > 0)
        => RecordsOfLastCall = {}

\* The batches 1..n in order.
FirstBatches(n) == [k \in 1..n |-> k]

\* C21: the verification query of store_document_chunks runs only after
\* every batch was upserted, in order and without error; when the upsert of
\* a batch raises, no later batch is upserted, the verification is not run
\* and the call returns False.
C21_VerificationAfterAllBatches ==
    /\ storing.pc # "idle" =>
          /\ \E n \in 0..TotalBatches(storing.expected_chunks) :
                storing.upserted = FirstBatches(n)
          /\ storing.verified =>
                /\ storing.upserted = FirstBatches(TotalBatches(storing.expected_chunks))
                /\ storing.failing_batch = 0
    /\ last.op = "store_document_chunks" =>
          /\ last.verified =>
                /\ last.upserted = FirstBatches(TotalBatches(last.expected_chunks))
                /\ last.failing_batch = 0
          /\ (last.failing_batch > 0 /\ last.expected_chunks > 0) =>
                /\ last.upserted = FirstBatches(last.failing_batch - 1)
                /\ ~last.verified
                /\ ~last.success
          /\ last.success => last.verified

\* The second of three upserts raised and the call has returned.
C21_Witness ==
    /\ last.op = "store_document_chunks"
    /\ last.failing_batch = 2
    /\ TotalBatches(last.expected_chunks) > 2
    /\ last.upserted = <<1>>
    /\ ~last.success

\* A call of several batches was verified.
C21_ReachesVerified ==
    /\ last.op = "store_document_chunks"
    /\ last.verified /\ Len(last.upserted) > 1

\* C25: for every text and every chunk_size >= 1 with overlap < chunk_size,
\* the k-th chunk returned (k = 0, 1, 2, ...) has chunk_index = k, so that
\* chunk_index rises by one from chunk to chunk, and every chunk has
\* start_word < end_word.
C25_ChunkIndexAndRange ==
    (ChunkDone /\ chunk_size >= 1 /\ overlap < chunk_size) =>
        \A k \in 1..Len(chunk_result.chunks) :
            /\ chunk_result.chunks[k].chunk_index = k - 1
            /\ chunk_result.chunks[k].start_word < chunk_result.chunks[k].end_word

\* A call that made three chunks or more at a stride of two words or more.
C25_Witness ==
    /\ ChunkDone /\ chunk_size >= 1 /\ overlap < chunk_size
    /\ chunk_size - overlap >= 2
    /\ Len(chunk_result.chunks) >= 3

(***************************************************************************)
(* The history block of the chat prompt: chat_endpoint reads the last ten  *)
(* messages of the session's log and _format_conversation_history lays     *)
(* them out.  The logs are those the chat endpoint leaves: turns of a user *)
(* and an assistant message; one message may be long.                      *)
(***************************************************************************)
MaxLogTurns == 6
MaxOverCap == 1

\* The lengths of a long content: around the cap.
LongLengths == (HistoryContentCap - 1)..(HistoryContentCap + MaxOverCap)

\* The content of the k-th message of a log: its number, or digits up to a
\* length.
ShortContent(k) == <<"m">> \o PyStr(k)
LongContent(len) == [i \in 1..len |-> Digit(i % 10)]

\* A log of n messages, the p-th of them (if any) with a content of len
\* characters.
LogWith(n, p, len) ==
    [ k \in 1..n |->
        Message(IF k % 2 = 1 THEN "user" ELSE "assistant",
                IF k = p THEN LongContent(len) ELSE ShortContent(k),
                k, None) ]

FormatLogs ==
    {LogWith(2 * t, 0, 0) : t \in 0..MaxLogTurns}
      \cup {LogWith(2 * t, p, len) :
              t \in 1..MaxLogTurns, p \in 1..(2 * MaxLogTurns), len \in LongLengths}

\* conversation_store.get_history(session_id, last_n=10), then
\* _format_conversation_history(conversation_history).
ChatHistoryN == 10
FormatHistory ==
    /\ last.op = "none"
    /\ \E conversation_history \in { get_history(conversations, Chatter, ChatHistoryN) } :
          last' = [ op |-> "format_history",
                    history |-> conversation_history,
                    formatted_history |->
                        format_conversation_history(conversation_history) ]
    /\ UNCHANGED <<index, now, chunkVars, embedVars, chatVars, storeVars>>

FormatInit ==
    /\ \E log \in FormatLogs :
          /\ conversations = IF log = <<>> THEN <<>> ELSE (Chatter :> log)
          /\ appended = conversations
    /\ tasks = [w \in Workers |-> IdleTask]
    /\ IndexIdle /\ ChunkIdle /\ EmbedIdle /\ StoreIdle

FormatNext == FormatHistory \/ Respond

SpecFormat == FormatInit /\ [][FormatNext]_vars

\* What C26 lets a message show: its role and the first 300 characters of
\* its content, marked when more was cut.
C26_Entry(msg) ==
    <<"[">> \o (IF msg.role = "user" THEN <<"U", "S", "E", "R">>
                ELSE <<"A", "S", "S", "I", "S", "T", "A", "N", "T">>)
        \o <<"]", ":", " ">>
        \o SubSeq(msg.content, 1, Min(300, Len(msg.content)))
        \o (IF Len(msg.content) > 300 THEN <<".", ".", ".">> ELSE <<>>)
        \o <<"\n">>

\* C26: the formatted history holds the six most recent messages of the
\* history it is given (all of them when they are fewer), oldest first, and
\* of the content of each no more than its first 300 characters.
C26_FormattedHistoryWindow ==
    last.op = "format_history" =>
        LET window == MostRecent(last.history, 6)
        IN  last.formatted_history =
                IF last.history = <<>> THEN <<>>
                ELSE JoinLines(<<HistoryRule, HistoryHeader, HistoryRule \o <<"\n">>>>
                        \o [k \in 1..Len(window) |-> C26_Entry(window[k])]
                        \o <<HistoryRule>>)

\* A history of ten messages was formatted, with a content over the cap
\* among the six shown.
C26_Witness ==
    /\ last.op = "format_history"
    /\ Len(last.history) = 10
    /\ \E k \in 5..10 : Len(last.history[k].content) > 300

\* A content of exactly the cap, and a long content outside the window.
C26_ReachesCap ==
    /\ last.op = "format_history"
    /\ \E k \in 1..Len(last.history) :
          /\ k > Len(last.history) - 6
          /\ Len(last.history[k].content) = 300
C26_ReachesOutside ==
    /\ last.op = "format_history"
    /\ Len(last.history) > 6
    /\ Len(last.history[1].content) > 300

(***************************************************************************)
(* delete_document against indexes that hold one document of a few, of a   *)
(* thousand and of ten thousand chunks, beside a record of another         *)
(* document.  The query that lists the ids may fail, and so may the first  *)
(* delete call.                                                            *)
(***************************************************************************)
MaxOverTopK == 1

\* len(chunks) of the document to delete.
DeleteCounts ==
    {0, 1, DeleteBatchSize + 1, DeleteTopK}
      \cup {DeleteTopK + k : k \in 1..MaxOverTopK}

\* The index after store_document_chunks of document "d" with n chunks and
\* of document "x_d" with one chunk, both of the chatter.
IndexOf(n) ==
    Value({ store_document_chunks(idx, ScopedId(Chatter, <<"d">>),
                                  OneWordChunks(n), <<>>, 1, 0).index
            : idx \in { store_document_chunks(<<>>,
                            ScopedId(Chatter, <<"x", "_", "d">>),
                            OneWordChunks(1), <<>>, 0, 0).index } })

\* A call delete_document(f"{session_id}_{document_id}").
DeleteCall ==
    /\ last.op = "none"
    /\ \E session_id \in Sessions, document_id \in DocumentIds,
          fault \in {"none", "empty", "raise"}, failing_delete \in 0..1 :
       \E deleted \in { delete_document(index, ScopedId(session_id, document_id),
                                        fault, failing_delete) } :
          /\ index' = deleted.index
          /\ last' = [ op |-> "delete_document",
                       document_id |-> ScopedId(session_id, document_id),
                       fault |-> fault, failing_delete |-> failing_delete,
                       success |-> deleted.success ]
    /\ UNCHANGED <<now, chunkVars, embedVars, chatVars, storeVars>>

DeleteInit ==
    /\ \E n \in DeleteCounts : index = IndexOf(n) /\ now = 1 + n
    /\ last = NoRequest
    /\ ChunkIdle /\ EmbedIdle /\ ChatIdle /\ StoreIdle

DeleteNext == DeleteCall \/ Respond

SpecDelete == DeleteInit /\ [][DeleteNext]_vars

\* The records of a document, and the others, in index order.
RecordsWith(idx, document_id) ==
    SelectSeq(idx, LAMBDA r : r.metadata.document_id = document_id)
RecordsWithout(idx, document_id) ==
    SelectSeq(idx, LAMBDA r : r.metadata.document_id # document_id)

\* C27: after delete_document(D) returned success, its query answered by
\* the service in full, the index holds no record whose document_id is D,
\* however many chunks of D were stored, and the records of the other
\* documents are as they were.
C27_DeleteByDocument ==
    [][ (last'.op = "delete_document" /\ last'.success /\ last'.fault = "none")
          => /\ RecordsWith(index', last'.document_id) = <<>>
             /\ RecordsWithout(index', last'.document_id)
                    = RecordsWithout(index, last'.document_id) ]_vars

(***************************************************************************)
(* LegalChatbotService (chatbot_service.py): the chat of the service, with *)
(* its own ConversationMemoryStore, cleared and read by the service's      *)
(* other methods.  In this specification conversations is the dict         *)
(* self.conversations of that store.  chat suspends at llm.ainvoke;        *)
(* retrieve_relevant_chunks catches every exception and returns [], so the *)
(* except branch around it is never taken.                                 *)
(***************************************************************************)
max_conversations_per_session == 50
ServiceTopK == 5
ServiceHistoryN == 10
MaxServiceTurns == 2

\* ConversationMemoryStore.add_message
memory_add_message(store, session_id, role, content, document_id, timestamp) ==
    Value({ (session_id :>
                IF Len(log) > max_conversations_per_session
                THEN PyTail(log, max_conversations_per_session)
                ELSE log) @@ store
            : log \in { Append(LogOf(store, session_id),
                               Message(role, content, timestamp, document_id)) } })

\* ConversationMemoryStore.get_conversation_history
get_conversation_history(store, session_id, last_n) ==
    IF session_id \notin DOMAIN store THEN <<>>
    ELSE PyTail(store[session_id], last_n)

\* str.strip()
Whitespace == {" ", "\n", "\t", "\r"}
PyStrip(str) ==
    IF \A k \in 1..Len(str) : str[k] \in Whitespace THEN <<>>
    ELSE SubSeq(str,
                CHOOSE lo \in 1..Len(str) :
                    /\ str[lo] \notin Whitespace
                    /\ \A k \in 1..(lo - 1) : str[k] \in Whitespace,
                CHOOSE hi \in 1..Len(str) :
                    /\ str[hi] \notin Whitespace
                    /\ \A k \in (hi + 1)..Len(str) : str[k] \in Whitespace)

\* The literals of chat.
NoDocumentContent ==
    <<"N", "o", " ", "r", "e", "l", "e", "v", "a", "n", "t", " ", "d", "o",
      "c", "u", "m", "e", "n", "t", " ", "c", "o", "n", "t", "e", "n", "t",
      " ", "f", "o", "u", "n", "d", ".", " ", "T", "h", "e", " ", "d", "o",
      "c", "u", "m", "e", "n", "t", " ", "m", "a", "y", " ", "n", "o", "t",
      " ", "b", "e", " ", "u", "p", "l", "o", "a", "d", "e", "d", " ", "o",
      "r", " ", "i", "n", "d", "e", "x", "e", "d", " ", "y", "e", "t", ".">>
UserQuestionLabel ==
    <<"U", "s", "e", "r", " ", "Q", "u", "e", "s", "t", "i", "o", "n", ":", " ">>
DocumentContentLabel ==
    <<"\n", "\n", "R", "e", "l", "e", "v", "a", "n", "t", " ", "D", "o", "c",
      "u", "m", "e", "n", "t", " ", "C", "o", "n", "t", "e", "n", "t", ":", "\n">>
AnswerInstruction ==
    <<"\n", "\n", "P", "l", "e", "a", "s", "e", " ", "a", "n", "s", "w", "e",
      "r", " ", "t", "h", "e", " ", "u", "s", "e", "r", "'", "s", " ", "q",
      "u", "e", "s", "t", "i", "o", "n", " ", "b", "a", "s", "e", "d", " ",
      "o", "n", " ", "t", "h", "e", " ", "d", "o", "c", "u", "m", "e", "n",
      "t", " ", "c", "o", "n", "t", "e", "n", "t", " ", "p", "r", "o", "v",
      "i", "d", "e", "d", " ", "a", "b", "o", "v", "e", ".", " ", "R", "e",
      "f", "e", "r", "e", "n", "c", "e", " ", "s", "p", "e", "c", "i", "f",
      "i", "c", " ", "s", "e", "c", "t", "i", "o", "n", "s", " ", "w", "h",
      "e", "n", " ", "p", "o", "s", "s", "i", "b", "l", "e", ".">>
ApologyPrefix ==
    <<"I", " ", "a", "p", "o", "l", "o", "g", "i", "z", "e", ",", " ", "b",
      "u", "t", " ", "I", " ", "e", "n", "c", "o", "u", "n", "t", "e", "r",
      "e", "d", " ", "a", "n", " ", "e", "r", "r", "o", "r", " ", "p", "r",
      "o", "c", "e", "s", "s", "i", "n", "g", " ", "y", "o", "u", "r", " ",
      "r", "e", "q", "u", "e", "s", "t", ":", " ">>
ApologySuffix ==
    <<".", " ", "P", "l", "e", "a", "s", "e", " ", "t", "r", "y", " ", "a",
      "g", "a", "i", "n", ".">>
LlmNotInitialized ==
    <<"C", "h", "a", "t", "b", "o", "t", " ", "L", "L", "M", " ", "n", "o",
      "t", " ", "i", "n", "i", "t", "i", "a", "l", "i", "z", "e", "d">>
RequestTimedOut ==
    <<"R", "e", "q", "u", "e", "s", "t", " ", "t", "i", "m", "e", "d", " ",
      "o", "u", "t", ".">>

\* self.system_prompt, as one symbol for the whole literal.
ServiceSystemPrompt == <<"LEGAL ASSISTANT SYSTEM PROMPT">>

\* f"[Section {chunk['chunk_index']}]: {chunk['text']}"
SectionLine(chunk) ==
    <<"[", "S", "e", "c", "t", "i", "o", "n", " ">> \o PyStr(chunk.chunk_index)
        \o <<"]", ":", " ">> \o chunk.text

\* "\n\n".join(...) over the chunks.
RECURSIVE JoinSections(_, _)
JoinSections(chunks, k) ==
    IF k > Len(chunks) THEN <<>>
    ELSE IF k = Len(chunks) THEN SectionLine(chunks[k])
    ELSE SectionLine(chunks[k]) \o <<"\n", "\n">> \o JoinSections(chunks, k + 1)

\* Step 1 of chat for the list retrieve_relevant_chunks returns.
DocumentContextOf(use_rag, document_id, chunks) ==
    IF ~(use_rag /\ document_id # None)
    THEN [document_context |-> <<>>, relevant_chunks |-> <<>>]
    ELSE IF chunks # <<>>
    THEN [document_context |-> JoinSections(chunks, 1), relevant_chunks |-> chunks]
    ELSE [document_context |-> NoDocumentContent, relevant_chunks |-> <<>>]

\* Step 3 of chat: the messages given to the language model.
ServiceMessages(conversation_history, user_message, document_context) ==
    << [type |-> "system", content |-> ServiceSystemPrompt] >>
      \o Value({ [k \in 1..Len(shown) |->
                     [ type |-> (IF shown[k].role = "user" THEN "human" ELSE "ai"),
                       content |-> shown[k].content ]]
                 : shown \in { SelectSeq(PyTail(conversation_history, 6),
                                  LAMBDA msg : msg.role \in {"user", "assistant"}) } })
      \o << [ type |-> "human",
              content |-> IF document_context # <<>>
                          THEN UserQuestionLabel \o user_message
                                 \o DocumentContentLabel \o document_context
                                 \o AnswerInstruction
                          ELSE user_message ] >>

\* The dict chat returns after its except clause.
ServiceError(session_id, document_id, error) ==
    [ op |-> "service_chat", session_id |-> session_id, status |-> "error",
      response |-> ApologyPrefix \o error \o ApologySuffix,
      error |-> error, document_id |-> document_id,
      used_rag |-> FALSE, chunks_retrieved |-> 0,
      use_rag |-> FALSE, conversation_turn |-> 0 ]

\* The requests of the service's chat, and what llm.ainvoke does: it
\* answers, with or without surrounding white space, or raises.
ServiceRequests ==
    { [message |-> m, document_id |-> d, use_rag |-> u]
      : m \in {Q_ccb, <<" ">>}, d \in {<<"d">>, <<"x", "_", "d">>, None},
        u \in BOOLEAN }
ServiceLlmOutcomes ==
    { Completed(Answer), Completed(<<" ">> \o Answer \o <<"\n">>),
      Failed(RequestTimedOut) }

\* chat up to llm.ainvoke: retrieval, history, messages; the service was
\* constructed with a language model or without one (no API key).
ServiceChatStart(w) ==
    /\ last.op = "none"
    /\ tasks[w].pc = "idle"
    /\ \A v \in Workers : v < w => tasks[v].pc # "idle"
    /\ now < 1 + 2 * MaxServiceTurns
    /\ \E request \in ServiceRequests, mode \in {"ok", "down"}, llm \in BOOLEAN :
        \E context \in
            { DocumentContextOf(request.use_rag, request.document_id,
                  IF request.use_rag /\ request.document_id # None
                  THEN retrieve_relevant_chunks(index, request.message,
                           ScopedId(Chatter, request.document_id),
                           ServiceTopK, mode)
                  ELSE <<>>) } :
        \E conversation_history \in
            { get_conversation_history(conversations, Chatter, ServiceHistoryN) } :
            IF ~llm
            THEN /\ last' = ServiceError(Chatter, request.document_id,
                                         LlmNotInitialized)
                 /\ UNCHANGED tasks
            ELSE /\ tasks' = [tasks EXCEPT ![w] =
                        [ pc |-> "generating", session_id |-> Chatter,
                          request |-> request,
                          has_history |-> conversation_history # <<>>,
                          prompt |->
                            [ messages |-> ServiceMessages(conversation_history,
                                               request.message,
                                               context.document_context),
                              document_context |-> context.document_context,
                              relevant_chunks |-> context.relevant_chunks,
                              turn |-> (Len(conversation_history) \div 2) + 1 ] ]]
                 /\ UNCHANGED last
    /\ UNCHANGED <<conversations, appended, index, now, chunkVars, embedVars, storeVars>>

\* chat from the answer of the language model on: the two messages of the
\* turn and the dict returned.
ServiceChatFinish(w) ==
    /\ last.op = "none"
    /\ tasks[w].pc = "generating"
    /\ \E response \in ServiceLlmOutcomes :
        \E task \in { tasks[w] } :
          IF ~response.ok
          THEN /\ last' = ServiceError(task.session_id, task.request.document_id,
                                       response.error)
               /\ UNCHANGED <<conversations, now>>
          ELSE \E bot_response \in { PyStrip(response.content) } :
               /\ conversations' =
                     memory_add_message(
                         memory_add_message(conversations, task.session_id, "user",
                             task.request.message, task.request.document_id, now),
                         task.session_id, "assistant", bot_response,
                         task.request.document_id, now + 1)
               /\ now' = now + 2
               /\ last' = [ op |-> "service_chat", session_id |-> task.session_id,
                            status |-> "ok", response |-> bot_response,
                            error |-> <<>>,
                            document_id |-> task.request.document_id,
                            used_rag |-> task.request.use_rag
                                           /\ task.prompt.document_context # <<>>,
                            chunks_retrieved |-> Len(task.prompt.relevant_chunks),
                            use_rag |-> task.request.use_rag,
                            conversation_turn |-> task.prompt.turn ]
    /\ tasks' = [tasks EXCEPT ![w] = IdleTask]
    /\ UNCHANGED <<appended, index, chunkVars, embedVars, storeVars>>

\* ConversationMemoryStore.clear_conversation
memory_clear_conversation(store, session_id) ==
    [s \in DOMAIN store \ {session_id} |-> store[s]]

\* LegalChatbotService.clear_conversation(session_id)
ServiceClearConversation ==
    /\ last.op = "none"
    /\ \E session_id \in Sessions :
          /\ conversations' = memory_clear_conversation(conversations, session_id)
          /\ last' = [ op |-> "service_clear", session_id |-> session_id,
                       status |-> "ok" ]
    /\ UNCHANGED <<appended, tasks, index, now, chunkVars, embedVars, storeVars>>

\* LegalChatbotService.get_conversation_history(session_id): the last 50
\* messages of the session.
ServiceGetHistory ==
    /\ last.op = "none"
    /\ \E session_id \in Sessions :
          last' = [ op |-> "service_history", session_id |-> session_id,
                    status |-> "ok",
                    messages |-> get_conversation_history(conversations, session_id,
                                     max_conversations_per_session) ]
    /\ UNCHANGED <<conversations, appended, tasks, index, now,
                   chunkVars, embedVars, storeVars>>

\* The session and the message of health_check.
HealthSession ==
    <<"h", "e", "a", "l", "t", "h", "_", "c", "h", "e", "c", "k", "_",
      "s", "e", "s", "s", "i", "o", "n">>
HealthMessage ==
    <<"H", "e", "l", "l", "o", ",", " ", "t", "h", "i", "s", " ", "i", "s",
      " ", "a", " ", "t", "e", "s", "t">>

\* The dict health_check returns after its chat answered with the response.
HealthReport(response, llm) ==
    [ op |-> "health_check", session_id |-> HealthSession, status |-> "healthy",
      llm_initialized |-> llm, test_response_generated |-> response # <<>> ]

\* health_check up to llm.ainvoke of its chat (use_rag=False, no document):
\* without a language model the chat returns its error dict at once, the
\* test conversation is cleared and the report returned.
HealthCheckStart(w) ==
    /\ last.op = "none"
    /\ tasks[w].pc = "idle"
    /\ \A v \in Workers : v < w => tasks[v].pc # "idle"
    /\ now < 1 + 2 * MaxServiceTurns
    /\ \E llm \in BOOLEAN :
        \E conversation_history \in
            { get_conversation_history(conversations, HealthSession,
                                       ServiceHistoryN) } :
            IF ~llm
            THEN /\ conversations' =
                       memory_clear_conversation(conversations, HealthSession)
                 /\ last' = HealthReport(
                       ServiceError(HealthSession, None, LlmNotInitialized).response,
                       FALSE)
                 /\ UNCHANGED tasks
            ELSE /\ tasks' = [tasks EXCEPT ![w] =
                        [ pc |-> "health", session_id |-> HealthSession,
                          request |-> [ message |-> HealthMessage,
                                        document_id |-> None, use_rag |-> FALSE ],
                          has_history |-> conversation_history # <<>>,
                          prompt |->
                            [ messages |-> ServiceMessages(conversation_history,
                                               HealthMessage, <<>>),
                              document_context |-> <<>>,
                              relevant_chunks |-> <<>>,
                              turn |-> (Len(conversation_history) \div 2) + 1 ] ]]
                 /\ UNCHANGED <<conversations, last>>
    /\ UNCHANGED <<appended, index, now, chunkVars, embedVars, storeVars>>

\* health_check from the answer of the language model on: the chat stores
\* its two messages (or returns its error dict), the test conversation is
\* cleared and the report returned, with no suspension between them.
HealthCheckFinish(w) ==
    /\ last.op = "none"
    /\ tasks[w].pc = "health"
    /\ \E response \in ServiceLlmOutcomes :
        \E task \in { tasks[w] } :
          IF ~response.ok
          THEN /\ conversations' =
                     memory_clear_conversation(conversations, task.session_id)
               /\ last' = HealthReport(
                     ServiceError(task.session_id, None, response.error).response,
                     TRUE)
               /\ UNCHANGED now
          ELSE \E bot_response \in { PyStrip(response.content) } :
               /\ conversations' =
                     memory_clear_conversation(
                         memory_add_message(
                             memory_add_message(conversations, task.session_id,
                                 "user", task.request.message, None, now),
                             task.session_id, "assistant", bot_response,
                             None, now + 1),
                         task.session_id)
               /\ now' = now + 2
               /\ last' = HealthReport(bot_response, TRUE)
    /\ tasks' = [tasks EXCEPT ![w] = IdleTask]
    /\ UNCHANGED <<appended, index, chunkVars, embedVars, storeVars>>

ServiceInit ==
    /\ index = StoredIndex /\ now = 1 /\ last = NoRequest
    /\ ChatIdle /\ ChunkIdle /\ EmbedIdle /\ StoreIdle

ServiceNext ==
    \/ \E w \in Workers : ServiceChatStart(w)
    \/ \E w \in Workers : ServiceChatFinish(w)
    \/ ServiceClearConversation
    \/ ServiceGetHistory
    \/ \E w \in Workers : HealthCheckStart(w)
    \/ \E w \in Workers : HealthCheckFinish(w)
    \/ ChatRespond

SpecService == ServiceInit /\ [][ServiceNext]_vars

\* C30: in every chat response, of chat_endpoint and of the service's chat
\* alike, used_rag is true exactly when chunks_retrieved > 0; a request
\* whose retrieval found no chunk or failed reports used_rag false.
C30_UsedRagIffChunks ==
    last.op \in {"chat_endpoint", "service_chat"} =>
        (last.used_rag <=> last.chunks_retrieved > 0)

====
